---- MODULE Spec2Model ----
(***************************************************************************)
(* Model of the secscraper core: the CSV-backed repository                 *)
(* (src/repositories/csv_repository.py), the rate-limited retrying HTTP    *)
(* client (src/clients/base_client.py) and the ingestion orchestrator      *)
(* (src/services/earnings_service.py).                                     *)
(*                                                                         *)
(* Every coroutine runs on one asyncio event loop.  A task keeps the loop  *)
(* until it awaits something that really suspends (a contended lock, a     *)
(* sleep, a network request); "running" is the task that holds the loop.   *)
(***************************************************************************)
EXTENDS Integers, Sequences, FiniteSets, TLC

VARIABLES
    running,     \* the task that holds the event loop, or None
    file,        \* CSVRepository: the rows of the backing CSV file, as text cells
    key_field,   \* CSVRepository.key_field of the instance ("cik" or "symbol")
    pc,          \* per task: position inside the repository call
    op,          \* per task: the call it is making (kind and arguments)
    df,          \* per task: the DataFrame it holds (typed cells)
    base,        \* per task: the file contents its DataFrame was read from
    result,      \* per task: what the call returns or raises
    clock,              \* BaseAPIClient: loop.time(), in seconds
    last_request_time,  \* BaseAPIClient._last_request_time
    session,            \* BaseAPIClient._session: "none" or "open"
    client_lock,        \* BaseAPIClient._lock: the task inside the section, or None
    cpc,                \* per task: position inside _make_request
    wake,               \* per task: when its asyncio.sleep ends
    hist,               \* per task: the outcomes of the attempts of its call so far
    cres,               \* per task: what _make_request returns or raises
    last_dispatch,      \* time of the latest dispatch of the client, -1 before the first
    gap,                \* time between the latest two dispatches, -1 before the second
    processing_lock,    \* EarningsService._processing_lock: the task inside, or None
    spc,                \* per task: position inside fetch_daily_earnings
    sdate,              \* per task: the date_obj of its call (day of December 2024)
    raw,                \* per task: the rows of the source response it fetched
    reports,            \* per task: the reports still to be persisted
    daily,              \* per date: the rows of the date-partition file
    master,             \* the rows of the master file
    sres,               \* per task: what fetch_daily_earnings returns or raises
    slist,              \* per task: the reports list of its call (returned on success)
    sfetches,           \* per task: requests its call has sent to the source
    swrote,             \* per task: rows its call has written, per store
    wpc,                \* per task: position inside update_earnings_data
    wrange,             \* per task: the start and end date of its walk
    wcur,               \* per task: current_date of its walk
    wresults,           \* per task: the results map, date -> number of reports
    wfailed,            \* per task: the dates whose fetch raised during its walk
    cache,              \* CIKService._cache: the companies of the last reload, in order
    cache_lock,         \* CIKService._cache_lock: the task inside, or None
    last_refresh,       \* CIKService._last_refresh: <<>> for None, <<h>> for hour h
    utcnow,             \* datetime.utcnow(), in hours
    kpc,                \* per task: position inside get_company / update_company_list
    kop,                \* per task: the call it issued
    current_symbols,    \* per task: the symbols update_company_list found stored
    company_data,       \* per task: the rows of the source response it fetched
    kres,               \* per task: what its call returns or raises
    kreloaded,          \* per task: its call reloaded the cache from the repository
    kstale,             \* per task: the cache was stale when its call was issued
    kfirst,             \* per task: the sync its get_company is the first call after
    synced,             \* the latest sync that added symbols, until a get_company follows
    redundant,          \* a reload happened while the cache was fresh
    client_session,     \* per client: BaseAPIClient._session, 0 for None
    closed,             \* the sessions that have been closed
    created,            \* the number of ClientSession objects created so far
    in_scope,           \* per client: between a setup and the next cleanup
    made,               \* per client: sessions it created since its last cleanup
    owned,              \* per client: every session it has created
    lpc,                \* per client: "idle", or "closing" inside cleanup
    report,             \* an EarningsReport: its amounts and its two surprises
    orig,               \* the report as it was constructed
    once,               \* the report after the first calculate_surprises
    ncalls,             \* the number of calculate_surprises calls so far
    mop,                \* maintenance: the function of scripts/maintenance.py that ran
    mret,               \* maintenance: what it returned or raised
    mbefore,            \* maintenance: the master file and the partitions before it ran
    shape_rows,         \* _process_earnings_data: the rows of the raw response
    shape_out,          \* _process_earnings_data: what the call returned or raised
    held,               \* per lock: the task inside its section, or None
    prog,               \* per task: the steps of its call that are still to run
    call,               \* per task: the call it is making
    blocked             \* per task: it has waited for a lock during this call

repoVars == <<running, file, key_field, pc, op, df, base, result>>

clientVars == <<clock, last_request_time, session, client_lock, cpc, wake, hist, cres,
                last_dispatch, gap>>

svcVars == <<processing_lock, spc, sdate, raw, reports, daily, master, sres,
             slist, sfetches, swrote>>

walkVars == <<wpc, wrange, wcur, wresults, wfailed>>

cikVars == <<cache, cache_lock, last_refresh, utcnow, kpc, kop, current_symbols,
             company_data, kres, kreloaded, kstale, kfirst, synced, redundant>>

lifeVars == <<client_session, closed, created, in_scope, made, owned, lpc>>

surVars == <<report, orig, once, ncalls>>

mntVars == <<mop, mret, mbefore>>

shapeVars == <<shape_rows, shape_out>>

lockVars == <<held, prog, call, blocked>>

vars == <<repoVars, clientVars, svcVars, walkVars, cikVars, lifeVars, surVars,
          mntVars, shapeVars, lockVars>>

None == "None"

Tasks == {"t1", "t2"}

-----------------------------------------------------------------------------
(* Text helpers: cells of the CSV file are strings.                        *)

KeyWidth == 10

Digits == {"0", "1", "2", "3", "4", "5", "6", "7", "8", "9"}

CharAt(s, i) == SubSeq(s, i, i)

IsDigits(s) == Len(s) > 0 /\ \A i \in 1..Len(s) : CharAt(s, i) \in Digits

RECURSIVE Zfill(_)
\* str.zfill(10): left-pad with "0" up to the width, longer strings unchanged
Zfill(s) == IF Len(s) >= KeyWidth THEN s ELSE Zfill("0" \o s)

RECURSIVE StripZeros(_)
\* the decimal numeral of int(s): leading zeros dropped
StripZeros(s) ==
    IF Len(s) > 1 /\ CharAt(s, 1) = "0" THEN StripZeros(SubSeq(s, 2, Len(s))) ELSE s

DigitChar(n) == CharAt("0123456789", n + 1)

\* datetime.isoformat() of the instant "day n of December 2024, 00:00"
IsoFormat(n) == "2024-12-0" \o DigitChar(n) \o "T00:00:00"

IsIso(s) == \E n \in 0..9 : IsoFormat(n) = s

\* pd.to_datetime of an ISO string: the instant it denotes
ToDatetime(s) == CHOOSE n \in 0..9 : IsoFormat(n) = s

\* a decimal literal with one point, which read_csv infers as float64
IsFloat(s) ==
    /\ Len(s) >= 3
    /\ \E k \in 2..(Len(s) - 1) :
          /\ CharAt(s, k) = "."
          /\ IsDigits(SubSeq(s, 1, k - 1))
          /\ IsDigits(SubSeq(s, k + 1, Len(s)))

Lower == "abcdefghijklmnopqrstuvwxyz"

Upper == "ABCDEFGHIJKLMNOPQRSTUVWXYZ"

UpperChar(c) ==
    IF \E k \in 1..26 : CharAt(Lower, k) = c
    THEN CharAt(Upper, CHOOSE k \in 1..26 : CharAt(Lower, k) = c)
    ELSE c

RECURSIVE NormalizeSymbol(_)
\* v.upper().replace("-", ".")
NormalizeSymbol(s) ==
    IF Len(s) = 0 THEN s
    ELSE (IF CharAt(s, 1) = "-" THEN "." ELSE UpperChar(CharAt(s, 1)))
         \o NormalizeSymbol(SubSeq(s, 2, Len(s)))

-----------------------------------------------------------------------------
(* Records.  An entity has a cik, a symbol, a timestamp and one optional   *)
(* field: Company(cik, symbol, created_at, sector) in the identifier store *)
(* (key_field "cik"), EarningsReport(company_cik, symbol, report_date,     *)
(* eps_estimate) in the report store (key_field "symbol").                 *)

Columns == {"cik", "symbol", "date", "opt"}

Entity(c, s, d, o) == [cik |-> c, symbol |-> s, date |-> d, opt |-> o]

ModelClass(kf) == IF kf = "cik" THEN "Company" ELSE "EarningsReport"

\* typed cells of a DataFrame
StrCell(s) == [t |-> "str", v |-> s]
IntCell(s) == [t |-> "int", v |-> StripZeros(s)]
FloatCell(s) == [t |-> "float", v |-> s]
NaN == [t |-> "nan", v |-> ""]

\* pd.read_csv(dtype={key_field: str}, keep_default_na=False, na_values=[''])
\* followed by astype(str).str.zfill(10) on the key column: the key column stays
\* text, an empty cell is NaN, a column of digit strings is inferred as int64
\* (leading zeros are lost), a decimal literal as float64
ReadCell(c, text, kf) ==
    IF c = kf THEN StrCell(Zfill(text))
    ELSE IF text = "" THEN NaN
    ELSE IF IsDigits(text) THEN IntCell(text)
    ELSE IF IsFloat(text) THEN FloatCell(text)
    ELSE StrCell(text)

\* CSVRepository._read_df: the DataFrame of the file (an empty file gives an
\* empty frame)
ReadCsv(f, kf) ==
    [i \in 1..Len(f) |-> [c \in Columns |-> ReadCell(c, f[i][c], kf)]]

\* CSVRepository._write_df: df.to_csv(index=False, na_rep='')
WriteCsv(d) == [i \in 1..Len(d) |-> [c \in Columns |-> d[i][c].v]]

\* CSVRepository._model_to_dict: datetime -> isoformat, key field -> zfill(10),
\* None -> '', everything else as it is
ModelToDict(e, kf) ==
    [c \in Columns |->
        IF c = "date" THEN StrCell(IsoFormat(e.date))
        ELSE IF c = kf THEN StrCell(Zfill(e[c]))
        ELSE IF e[c] = None THEN StrCell("")
        ELSE StrCell(e[c])]

NoEntity == Entity("", "", 0, None)

Result(k, e) == [kind |-> k, val |-> e]

NoResult == Result("pending", NoEntity)

\* a str field with pattern ^[0-9]{10}$ (Company.cik, EarningsReport.company_cik):
\* pydantic rejects an int, and a string that is not ten digits
ValidCik(cell) == cell.t = "str" /\ Len(cell.v) = KeyWidth /\ IsDigits(cell.v)

\* a str field with min_length 1 and max_length 10
ValidSymbol(cell) == cell.t = "str" /\ Len(cell.v) >= 1 /\ Len(cell.v) <= 10

\* a datetime field: the ISO string is converted by pd.to_datetime
ValidDate(cell) == cell.t = "str" /\ IsIso(cell.v)

\* the optional field: Optional[str] on Company, Optional[Decimal] on
\* EarningsReport; clean_nan_values has turned NaN into None
ValidOpt(cell, kf) ==
    IF ModelClass(kf) = "Company"
    THEN cell.t \in {"nan", "str"}
    ELSE cell.t \in {"nan", "int", "float"}

\* model_class(**data) on a row of the frame (lines 141-151): the entity, or the
\* validation error that get wraps into StorageError
RowToModel(row, kf) ==
    IF /\ ValidCik(row["cik"])
       /\ ValidSymbol(row["symbol"])
       /\ ValidDate(row["date"])
       /\ ValidOpt(row["opt"], kf)
    THEN Result("entity",
                Entity(row["cik"].v,
                       NormalizeSymbol(row["symbol"].v),
                       ToDatetime(row["date"].v),
                       IF row["opt"].t = "nan" THEN None ELSE row["opt"].v))
    ELSE Result("StorageError", NoEntity)

\* indices of the rows whose key column equals the normalized key
Matching(d, kf, key) == {i \in 1..Len(d) : d[i][kf].v = key}

KeysOf(d, kf) == {d[i][kf].v : i \in 1..Len(d)}

\* add without its duplicate check
AddDf_NoCheck(d, e, kf) == [err |-> FALSE, df |-> Append(d, ModelToDict(e, kf))]

\* CSVRepository.add, between its read and its write: the duplicate check and
\* the concatenation.  err: the StorageError "already exists".
AddDf(d, e, kf) ==
    LET key_value == Zfill(e[kf])
    IN  IF d # <<>> /\ Matching(d, kf, key_value) # {}
        THEN [err |-> TRUE, df |-> d]
        ELSE [err |-> FALSE, df |-> Append(d, ModelToDict(e, kf))]

\* add_many that looks only at its first record for a collision
AddManyDf_FirstOnly(d, es, kf) ==
    LET new_df == [i \in 1..Len(es) |-> ModelToDict(es[i], kf)]
    IN  IF d # <<>> /\ new_df[1][kf].v \in KeysOf(d, kf)
        THEN [err |-> TRUE, df |-> d]
        ELSE [err |-> FALSE, df |-> d \o new_df]

\* CSVRepository.add_many, between its read and its write: the existing keys
\* are intersected with the new keys; the batch itself is not checked
AddManyDf(d, es, kf) ==
    LET new_df == [i \in 1..Len(es) |-> ModelToDict(es[i], kf)]
    IN  IF d # <<>> /\ (KeysOf(d, kf) \cap KeysOf(new_df, kf)) # {}
        THEN [err |-> TRUE, df |-> d]
        ELSE [err |-> FALSE, df |-> d \o new_df]

\* an update that creates the row when no row has the key
UpdateDf_Upsert(d, e, kf) ==
    LET key_value == Zfill(e[kf])
        mask == Matching(d, kf, key_value)
    IN  IF d = <<>> \/ mask = {}
        THEN [found |-> TRUE, df |-> Append(d, ModelToDict(e, kf))]
        ELSE [found |-> TRUE,
              df |-> [i \in 1..Len(d) |->
                         IF i \in mask THEN ModelToDict(e, kf) ELSE d[i]]]

\* CSVRepository.update: every row with the key gets the entity's values
UpdateDf(d, e, kf) ==
    LET key_value == Zfill(e[kf])
        mask == Matching(d, kf, key_value)
    IN  IF d = <<>> \/ mask = {}
        THEN [found |-> FALSE, df |-> d]
        ELSE [found |-> TRUE,
              df |-> [i \in 1..Len(d) |->
                         IF i \in mask THEN ModelToDict(e, kf) ELSE d[i]]]

RECURSIVE Without(_, _)
\* df[~mask]: the rows outside the mask, in order
Without(d, mask) ==
    IF d = <<>> THEN <<>>
    ELSE LET rest == Without(SubSeq(d, 1, Len(d) - 1), mask)
         IN  IF Len(d) \in mask THEN rest ELSE Append(rest, d[Len(d)])

\* CSVRepository.delete
DeleteDf(d, id, kf) ==
    LET mask == Matching(d, kf, Zfill(id))
    IN  IF d = <<>> \/ mask = {}
        THEN [found |-> FALSE, df |-> d]
        ELSE [found |-> TRUE, df |-> Without(d, mask)]

Min(S) == CHOOSE x \in S : \A y \in S : x <= y

\* a get that raises when no row has the key
GetDf_RaiseOnMissing(d, id, kf) ==
    LET mask == Matching(d, kf, Zfill(id))
    IN  IF d = <<>> \/ mask = {} THEN Result("StorageError", NoEntity)
        ELSE RowToModel(d[Min(mask)], kf)

\* CSVRepository.get_all after its read: every row as a model, or StorageError
GetAllDf(d, kf) ==
    LET models == [i \in 1..Len(d) |-> RowToModel(d[i], kf)]
    IN  IF \E i \in 1..Len(d) : models[i].kind = "StorageError"
        THEN [err |-> TRUE, ents |-> <<>>]
        ELSE [err |-> FALSE, ents |-> [i \in 1..Len(d) |-> models[i].val]]

\* CSVRepository.get after its read: None, the first matching row as a model,
\* or StorageError when the row does not validate
GetDf(d, id, kf) ==
    LET mask == Matching(d, kf, Zfill(id))
    IN  IF d = <<>> \/ mask = {} THEN Result("none", NoEntity)
        ELSE RowToModel(d[Min(mask)], kf)

\* the optional field as get_by_date_range hands it to the model: the row's
\* NaN is not turned into None, and NaN is neither a str nor a finite Decimal
ValidOptRaw(cell, kf) ==
    IF ModelClass(kf) = "Company"
    THEN cell.t = "str"
    ELSE cell.t \in {"int", "float"}

\* model_class(**row.to_dict()) of get_by_date_range (lines 284-290)
RowToModelRaw(row, kf) ==
    IF /\ ValidCik(row["cik"])
       /\ ValidSymbol(row["symbol"])
       /\ ValidDate(row["date"])
       /\ ValidOptRaw(row["opt"], kf)
    THEN Result("entity",
                Entity(row["cik"].v,
                       NormalizeSymbol(row["symbol"].v),
                       ToDatetime(row["date"].v),
                       row["opt"].v))
    ELSE Result("StorageError", NoEntity)

\* TimeRangeCSVRepository.get_by_date_range after its read: the date column is
\* parsed, the rows with start_date <= date <= end_date are kept and each is
\* made a model; any failure is a StorageError
GetByDateRangeDf(d, start_date, end_date, kf) ==
    LET InRange(row) ==
            ToDatetime(row["date"].v) >= start_date /\ ToDatetime(row["date"].v) <= end_date
        filtered == SelectSeq(d, InRange)
        models == [i \in 1..Len(filtered) |-> RowToModelRaw(filtered[i], kf)]
    IN  IF d = <<>> THEN Result("entities", <<>>)
        ELSE IF \E i \in 1..Len(d) : ~ValidDate(d[i]["date"])
        THEN Result("StorageError", NoEntity)
        ELSE IF \E i \in 1..Len(models) : models[i].kind = "StorageError"
        THEN Result("StorageError", NoEntity)
        ELSE Result("entities", [i \in 1..Len(models) |-> models[i].val])

-----------------------------------------------------------------------------
(* Initial values of the parts a specification does not use.               *)

RepoIdle ==
    /\ running = None
    /\ file = <<>>
    /\ key_field = "cik"
    /\ pc = [t \in Tasks |-> "idle"]
    /\ op = [t \in Tasks |-> [kind |-> "none", ents |-> <<>>, id |-> ""]]
    /\ df = [t \in Tasks |-> <<>>]
    /\ base = [t \in Tasks |-> <<>>]
    /\ result = [t \in Tasks |-> NoResult]

\* the configured rate_limit_seconds of the client, in seconds
RATE_LIMIT == 2

\* BaseAPIClient.__init__; the loop's clock is past the first interval
ClientIdle ==
    /\ clock = RATE_LIMIT
    /\ last_request_time = 0
    /\ session = "none"
    /\ client_lock = None
    /\ cpc = [t \in Tasks |-> "idle"]
    /\ wake = [t \in Tasks |-> 0]
    /\ hist = [t \in Tasks |-> <<>>]
    /\ cres = [t \in Tasks |-> "pending"]
    /\ last_dispatch = -1
    /\ gap = -1

\* the dates handed to fetch_daily_earnings: Thursday 5, Friday 6 and Saturday 7
\* December 2024
SvcDates == {5, 6, 7}

\* EarningsService.__init__ and a fresh data directory
SvcIdle ==
    /\ processing_lock = None
    /\ spc = [t \in Tasks |-> "idle"]
    /\ sdate = [t \in Tasks |-> 0]
    /\ raw = [t \in Tasks |-> <<>>]
    /\ reports = [t \in Tasks |-> <<>>]
    /\ daily = [d \in SvcDates |-> <<>>]
    /\ master = <<>>
    /\ sres = [t \in Tasks |-> "pending"]
    /\ slist = [t \in Tasks |-> <<>>]
    /\ sfetches = [t \in Tasks |-> 0]
    /\ swrote = [t \in Tasks |-> [daily |-> 0, master |-> 0]]

\* no walk is under way
WalkIdle ==
    /\ wpc = [t \in Tasks |-> "idle"]
    /\ wrange = [t \in Tasks |-> [start |-> 0, end |-> 0]]
    /\ wcur = [t \in Tasks |-> 0]
    /\ wresults = [t \in Tasks |-> <<>>]
    /\ wfailed = [t \in Tasks |-> {}]

Clients == {"c1", "c2"}

\* no client has a session
LifeIdle ==
    /\ client_session = [c \in Clients |-> 0]
    /\ closed = {}
    /\ created = 0
    /\ in_scope = [c \in Clients |-> FALSE]
    /\ made = [c \in Clients |-> 0]
    /\ owned = [c \in Clients |-> {}]
    /\ lpc = [c \in Clients |-> "idle"]

\* an amount that is not set is <<>>, an amount of n hundredths is <<n>>
Report(ee, ea, re, ra, es, rs) ==
    [eps_estimate |-> ee, eps_actual |-> ea, revenue_estimate |-> re,
     revenue_actual |-> ra, eps_surprise |-> es, revenue_surprise |-> rs]

NoReport == Report(<<>>, <<>>, <<>>, <<>>, <<>>, <<>>)

\* no report is being worked on
SurIdle ==
    /\ report = NoReport
    /\ orig = NoReport
    /\ once = NoReport
    /\ ncalls = 0

NoMaint == [kind |-> "pending", n |-> 0]

\* no maintenance function has run
MntIdle ==
    /\ mop = "none"
    /\ mret = NoMaint
    /\ mbefore = [master |-> <<>>, daily |-> [d \in SvcDates |-> <<>>]]

NoShape == [kind |-> "pending", reports |-> <<>>]

\* no response is being shaped
ShapeIdle ==
    /\ shape_rows = <<>>
    /\ shape_out = NoShape

\* the locks of one process: EarningsService._processing_lock, the _lock of the
\* two clients, CIKService._cache_lock, and the _lock of the identifier
\* repository and of the master report repository
Locks == {"processing", "nasdaq", "sec", "cache", "companies", "master"}

\* every lock is free and no call is in progress
LockIdle ==
    /\ held = [l \in Locks |-> None]
    /\ prog = [t \in Tasks |-> <<>>]
    /\ call = [t \in Tasks |-> "none"]
    /\ blocked = [t \in Tasks |-> FALSE]

NoCikOp == [kind |-> "none", symbol |-> ""]

NoCikResult == [kind |-> "pending", val |-> NoEntity, symbols |-> {}]

NoSync == [symbols |-> {}, fresh |-> FALSE]

\* the identifier service after construction: empty cache, never refreshed
CikIdle ==
    /\ cache = <<>>
    /\ cache_lock = None
    /\ last_refresh = <<>>
    /\ utcnow = 0
    /\ kpc = [t \in Tasks |-> "idle"]
    /\ kop = [t \in Tasks |-> NoCikOp]
    /\ current_symbols = [t \in Tasks |-> {}]
    /\ company_data = [t \in Tasks |-> <<>>]
    /\ kres = [t \in Tasks |-> NoCikResult]
    /\ kreloaded = [t \in Tasks |-> FALSE]
    /\ kstale = [t \in Tasks |-> FALSE]
    /\ kfirst = [t \in Tasks |-> NoSync]
    /\ synced = NoSync
    /\ redundant = FALSE

-----------------------------------------------------------------------------
(* The repository under concurrent callers.                                *)

\* the model lets add and add_many start only while the file holds fewer rows
MaxRows == 2

\* lengths of the batches handed to add_many
BatchLens == {0, 1, 2}

SampleCiks == <<"0000000001", "0000000002">>

SampleSymbols == <<"AAPL", "MSFT">>

\* the optional value of a sample record: a sector name, an EPS estimate
SampleOpt(kf) == IF ModelClass(kf) = "Company" THEN "Tech" ELSE "1.43"

\* records the model class accepts: two keys, two versions of each
Entities(kf) ==
    {Entity(SampleCiks[i], SampleSymbols[i], v, IF v = 1 THEN None ELSE SampleOpt(kf)) :
        i \in 1..2, v \in 1..2}

\* identifiers handed to get and delete: an unpadded key, a stored key, an
\* absent key
Ids(kf) ==
    IF kf = "cik" THEN {"1", "0000000002", "3"} ELSE {"AAPL", "000000MSFT", "IBM"}

Batches(kf) ==
    UNION {[1..n -> Entities(kf)] : n \in BatchLens}

Op(k, es, id) == [kind |-> k, ents |-> es, id |-> id]

NoOp == Op("none", <<>>, "")

Ops(kf) ==
    {Op("add", <<e>>, "") : e \in Entities(kf)}
    \cup {Op("add_many", es, "") : es \in Batches(kf)}
    \cup {Op("update", <<e>>, "") : e \in Entities(kf)}
    \cup {Op("delete", <<>>, id) : id \in Ids(kf)}
    \cup {Op("get", <<>>, id) : id \in Ids(kf)}
    \cup {Op("get_all", <<>>, "")}

RepoInit ==
    /\ running = None
    /\ file = <<>>
    /\ key_field \in {"cik", "symbol"}
    /\ pc = [t \in Tasks |-> "idle"]
    /\ op = [t \in Tasks |-> NoOp]
    /\ df = [t \in Tasks |-> <<>>]
    /\ base = [t \in Tasks |-> <<>>]
    /\ result = [t \in Tasks |-> NoResult]

\* The event loop runs t: t holds the loop, or the loop is free and t is a task
\* suspended inside a call, which the loop resumes
Scheduled(t) ==
    \/ running = t
    \/ running = None /\ pc[t] \notin {"idle", "ready"}

\* asyncio.create_task / gather: the call is issued, the task waits for the loop
Spawn(t) ==
    /\ pc[t] = "idle"
    /\ pc' = [pc EXCEPT ![t] = "ready"]
    /\ UNCHANGED <<running, file, key_field, op, df, base, result>>
    /\ UNCHANGED <<clientVars, svcVars, walkVars, cikVars, lifeVars, surVars, mntVars, shapeVars, lockVars>>

\* the loop starts a ready task: it enters add, add_many, update, delete or get.
\* add_many of an empty list returns [] before it reads (lines 177-178).
Call(t, o) ==
    /\ running = None
    /\ pc[t] = "ready"
    /\ o.kind \in {"add", "add_many"} => Len(file) < MaxRows
    /\ running' = t
    /\ op' = [op EXCEPT ![t] = o]
    /\ IF o.kind = "add_many" /\ o.ents = <<>>
       THEN /\ pc' = [pc EXCEPT ![t] = "done"]
            /\ result' = [result EXCEPT ![t] = Result("list", NoEntity)]
       ELSE /\ pc' = [pc EXCEPT ![t] = "read"]
            /\ UNCHANGED result
    /\ UNCHANGED <<file, key_field, df, base>>
    /\ UNCHANGED <<clientVars, svcVars, walkVars, cikVars, lifeVars, surVars, mntVars, shapeVars, lockVars>>

\* _read_df with a read that suspends the task (non-blocking file I/O): the
\* loop is free once the frame is read
ReadDf_Async(t) ==
    /\ Scheduled(t)
    /\ pc[t] = "read"
    /\ df' = [df EXCEPT ![t] = ReadCsv(file, key_field)]
    /\ base' = [base EXCEPT ![t] = file]
    /\ pc' = [pc EXCEPT ![t] = "body"]
    /\ running' = None
    /\ UNCHANGED <<file, key_field, op, result>>
    /\ UNCHANGED <<clientVars, svcVars, walkVars, cikVars, lifeVars, surVars, mntVars, shapeVars, lockVars>>

\* await self._read_df(): the lock is free whenever a task runs, pd.read_csv
\* blocks the loop, so the section runs to its end without suspending
ReadDf(t) ==
    /\ Scheduled(t)
    /\ pc[t] = "read"
    /\ df' = [df EXCEPT ![t] = ReadCsv(file, key_field)]
    /\ base' = [base EXCEPT ![t] = file]
    /\ pc' = [pc EXCEPT ![t] = "body"]
    /\ running' = t
    /\ UNCHANGED <<file, key_field, op, result>>
    /\ UNCHANGED <<clientVars, svcVars, walkVars, cikVars, lifeVars, surVars, mntVars, shapeVars, lockVars>>

\* add, from the duplicate check to the call of _write_df
AddBody(t) ==
    /\ Scheduled(t)
    /\ pc[t] = "body"
    /\ op[t].kind = "add"
    /\ LET r == AddDf(df[t], op[t].ents[1], key_field)
       IN  /\ df' = [df EXCEPT ![t] = r.df]
           /\ IF r.err
              THEN /\ result' = [result EXCEPT ![t] = Result("StorageError", NoEntity)]
                   /\ pc' = [pc EXCEPT ![t] = "done"]
              ELSE /\ result' = [result EXCEPT ![t] = Result("entity", op[t].ents[1])]
                   /\ pc' = [pc EXCEPT ![t] = "write"]
    /\ running' = t
    /\ UNCHANGED <<file, key_field, op, base>>
    /\ UNCHANGED <<clientVars, svcVars, walkVars, cikVars, lifeVars, surVars, mntVars, shapeVars, lockVars>>

\* add_many, from the duplicate check to the call of _write_df
AddManyBody(t) ==
    /\ Scheduled(t)
    /\ pc[t] = "body"
    /\ op[t].kind = "add_many"
    /\ LET r == AddManyDf(df[t], op[t].ents, key_field)
       IN  /\ df' = [df EXCEPT ![t] = r.df]
           /\ IF r.err
              THEN /\ result' = [result EXCEPT ![t] = Result("StorageError", NoEntity)]
                   /\ pc' = [pc EXCEPT ![t] = "done"]
              ELSE /\ result' = [result EXCEPT ![t] = Result("list", NoEntity)]
                   /\ pc' = [pc EXCEPT ![t] = "write"]
    /\ running' = t
    /\ UNCHANGED <<file, key_field, op, base>>
    /\ UNCHANGED <<clientVars, svcVars, walkVars, cikVars, lifeVars, surVars, mntVars, shapeVars, lockVars>>

\* update, from the lookup to the call of _write_df
UpdateBody(t) ==
    /\ Scheduled(t)
    /\ pc[t] = "body"
    /\ op[t].kind = "update"
    /\ LET r == UpdateDf(df[t], op[t].ents[1], key_field)
       IN  /\ df' = [df EXCEPT ![t] = r.df]
           /\ IF r.found
              THEN /\ result' = [result EXCEPT ![t] = Result("entity", op[t].ents[1])]
                   /\ pc' = [pc EXCEPT ![t] = "write"]
              ELSE /\ result' = [result EXCEPT ![t] = Result("none", NoEntity)]
                   /\ pc' = [pc EXCEPT ![t] = "done"]
    /\ running' = t
    /\ UNCHANGED <<file, key_field, op, base>>
    /\ UNCHANGED <<clientVars, svcVars, walkVars, cikVars, lifeVars, surVars, mntVars, shapeVars, lockVars>>

\* delete, from the lookup to the call of _write_df
DeleteBody(t) ==
    /\ Scheduled(t)
    /\ pc[t] = "body"
    /\ op[t].kind = "delete"
    /\ LET r == DeleteDf(df[t], op[t].id, key_field)
       IN  /\ df' = [df EXCEPT ![t] = r.df]
           /\ IF r.found
              THEN /\ result' = [result EXCEPT ![t] = Result("true", NoEntity)]
                   /\ pc' = [pc EXCEPT ![t] = "write"]
              ELSE /\ result' = [result EXCEPT ![t] = Result("false", NoEntity)]
                   /\ pc' = [pc EXCEPT ![t] = "done"]
    /\ running' = t
    /\ UNCHANGED <<file, key_field, op, base>>
    /\ UNCHANGED <<clientVars, svcVars, walkVars, cikVars, lifeVars, surVars, mntVars, shapeVars, lockVars>>

\* get, after its read
GetBody(t) ==
    /\ Scheduled(t)
    /\ pc[t] = "body"
    /\ op[t].kind = "get"
    /\ result' = [result EXCEPT ![t] = GetDf(df[t], op[t].id, key_field)]
    /\ pc' = [pc EXCEPT ![t] = "done"]
    /\ running' = t
    /\ UNCHANGED <<file, key_field, op, df, base>>
    /\ UNCHANGED <<clientVars, svcVars, walkVars, cikVars, lifeVars, surVars, mntVars, shapeVars, lockVars>>

\* get_all, after its read
GetAllBody(t) ==
    /\ Scheduled(t)
    /\ pc[t] = "body"
    /\ op[t].kind = "get_all"
    /\ LET r == GetAllDf(df[t], key_field)
       IN  result' = [result EXCEPT ![t] =
               IF r.err THEN Result("StorageError", NoEntity) ELSE Result("entities", r.ents)]
    /\ pc' = [pc EXCEPT ![t] = "done"]
    /\ running' = t
    /\ UNCHANGED <<file, key_field, op, df, base>>
    /\ UNCHANGED <<clientVars, svcVars, walkVars, cikVars, lifeVars, surVars, mntVars, shapeVars, lockVars>>

\* the start and end dates handed to get_by_date_range (days of December 2024)
RangeDates == {1, 2, 3}

RangeOp(start_date, end_date) ==
    [kind |-> "get_by_date_range", ents |-> <<>>, id |-> "",
     start_date |-> start_date, end_date |-> end_date]

\* only the report store is a TimeRangeCSVRepository
RangeOps(kf) ==
    IF kf = "symbol"
    THEN {RangeOp(a, b) : a \in RangeDates, b \in RangeDates}
    ELSE {}

\* get_by_date_range after its read
RangeBody(t) ==
    /\ Scheduled(t)
    /\ pc[t] = "body"
    /\ op[t].kind = "get_by_date_range"
    /\ result' = [result EXCEPT ![t] =
          GetByDateRangeDf(df[t], op[t].start_date, op[t].end_date, key_field)]
    /\ pc' = [pc EXCEPT ![t] = "done"]
    /\ running' = t
    /\ UNCHANGED <<file, key_field, op, df, base>>
    /\ UNCHANGED <<clientVars, svcVars, walkVars, cikVars, lifeVars, surVars, mntVars, shapeVars, lockVars>>

\* get_by_symbol(symbol) and get_by_symbol(symbol, start_date, end_date); a
\* date that is not given (None) is 0
SymbolOp(symbol, start_date, end_date) ==
    [kind |-> "get_by_symbol", ents |-> <<>>, id |-> symbol,
     start_date |-> start_date, end_date |-> end_date]

\* only the report store has get_by_symbol
SymbolOps(kf) ==
    IF kf = "symbol"
    THEN {SymbolOp(SampleSymbols[1], 0, 0), SymbolOp(SampleSymbols[1], 1, 2)}
    ELSE {}

\* EarningsRepository.get_by_symbol after the read of the query it delegates
\* to: get_by_date_range when both dates are given, get_all otherwise, then
\* the reports whose symbol equals the argument
GetBySymbolDf(d, symbol, start_date, end_date, kf) ==
    LET all == GetAllDf(d, kf)
        all_reports ==
            IF start_date # 0 /\ end_date # 0
            THEN GetByDateRangeDf(d, start_date, end_date, kf)
            ELSE IF all.err THEN Result("StorageError", NoEntity)
            ELSE Result("entities", all.ents)
        HasSymbol(r) == r.symbol = symbol
    IN  IF all_reports.kind = "StorageError" THEN all_reports
        ELSE Result("entities", SelectSeq(all_reports.val, HasSymbol))

\* get_by_symbol after its read
SymbolBody(t) ==
    /\ Scheduled(t)
    /\ pc[t] = "body"
    /\ op[t].kind = "get_by_symbol"
    /\ result' = [result EXCEPT ![t] =
          GetBySymbolDf(df[t], op[t].id, op[t].start_date, op[t].end_date, key_field)]
    /\ pc' = [pc EXCEPT ![t] = "done"]
    /\ running' = t
    /\ UNCHANGED <<file, key_field, op, df, base>>
    /\ UNCHANGED <<clientVars, svcVars, walkVars, cikVars, lifeVars, surVars, mntVars, shapeVars, lockVars>>

\* await self._write_df(df): the whole file is rewritten from the frame
WriteDf(t) ==
    /\ Scheduled(t)
    /\ pc[t] = "write"
    /\ file' = WriteCsv(df[t])
    /\ pc' = [pc EXCEPT ![t] = "done"]
    /\ running' = t
    /\ UNCHANGED <<key_field, op, df, base, result>>
    /\ UNCHANGED <<clientVars, svcVars, walkVars, cikVars, lifeVars, surVars, mntVars, shapeVars, lockVars>>

\* the call returns or raises to its caller and the task ends
Return(t) ==
    /\ Scheduled(t)
    /\ pc[t] = "done"
    /\ running' = None
    /\ pc' = [pc EXCEPT ![t] = "idle"]
    /\ op' = [op EXCEPT ![t] = NoOp]
    /\ df' = [df EXCEPT ![t] = <<>>]
    /\ base' = [base EXCEPT ![t] = <<>>]
    /\ result' = [result EXCEPT ![t] = NoResult]
    /\ UNCHANGED <<file, key_field>>
    /\ UNCHANGED <<clientVars, svcVars, walkVars, cikVars, lifeVars, surVars, mntVars, shapeVars, lockVars>>

RepoNext ==
    \E t \in Tasks :
        \/ Spawn(t)
        \/ \E o \in Ops(key_field) \cup RangeOps(key_field) \cup SymbolOps(key_field) :
              Call(t, o)
        \/ ReadDf(t)
        \/ AddBody(t)
        \/ AddManyBody(t)
        \/ UpdateBody(t)
        \/ DeleteBody(t)
        \/ GetBody(t)
        \/ GetAllBody(t)
        \/ RangeBody(t)
        \/ SymbolBody(t)
        \/ WriteDf(t)
        \/ Return(t)

\* the repository alone: the client is not used
Init == RepoInit /\ ClientIdle /\ SvcIdle /\ WalkIdle /\ CikIdle /\ LifeIdle /\ SurIdle
        /\ MntIdle /\ ShapeIdle /\ LockIdle

Next == RepoNext

Spec == Init /\ [][Next]_vars

-----------------------------------------------------------------------------
(* Claims about the repository.                                            *)

\* the normalized keys of the persisted rows
PersistedKeys(f, kf) == {Zfill(f[i][kf]) : i \in 1..Len(f)}

BatchKeys(es, kf) == {Zfill(es[i][kf]) : i \in 1..Len(es)}

\* C1: an add whose normalized key is the key of a persisted row fails with
\* StorageError, and the file after it holds exactly the rows it held before.
C1_DuplicateAddFails ==
    \A t \in Tasks :
        (/\ pc[t] = "done"
         /\ op[t].kind = "add"
         /\ Zfill(op[t].ents[1][key_field]) \in PersistedKeys(base[t], key_field))
        => (result[t].kind = "StorageError" /\ file = base[t])

C1_Witness ==
    \E t \in Tasks :
        /\ pc[t] = "done"
        /\ op[t].kind = "add"
        /\ Zfill(op[t].ents[1][key_field]) \in PersistedKeys(base[t], key_field)
        /\ result[t].kind = "StorageError"
        /\ Len(file) = 1

\* C2: an add_many whose batch holds at least one record with the key of a
\* persisted row fails, and the file after it equals the file before it.
C2_BatchCollisionAtomic ==
    \A t \in Tasks :
        (/\ pc[t] = "done"
         /\ op[t].kind = "add_many"
         /\ (BatchKeys(op[t].ents, key_field) \cap PersistedKeys(base[t], key_field)) # {})
        => (result[t].kind = "StorageError" /\ file = base[t])

\* a batch of two, one record colliding and one new, was refused
C2_Witness ==
    \E t \in Tasks :
        /\ pc[t] = "done"
        /\ op[t].kind = "add_many"
        /\ Len(op[t].ents) = 2
        /\ Zfill(op[t].ents[2][key_field]) \in PersistedKeys(base[t], key_field)
        /\ Zfill(op[t].ents[1][key_field]) \notin PersistedKeys(base[t], key_field)
        /\ result[t].kind = "StorageError"
        /\ file = base[t]

\* C3: an add_many whose batch holds two records with the same normalized key,
\* none of them colliding with a persisted row, fails and persists nothing.
C3_IntraBatchDuplicateFails ==
    \A t \in Tasks :
        (/\ pc[t] = "done"
         /\ op[t].kind = "add_many"
         /\ Cardinality(BatchKeys(op[t].ents, key_field)) < Len(op[t].ents)
         /\ (BatchKeys(op[t].ents, key_field) \cap PersistedKeys(base[t], key_field)) = {})
        => (result[t].kind = "StorageError" /\ file = base[t])

IsMutation(k) == k \in {"add", "add_many", "update", "delete"}

\* what a call does to the file when it runs alone on file f
SequentialEffect(o, f, kf) ==
    LET d == ReadCsv(f, kf)
    IN  CASE o.kind = "add" -> WriteCsv(AddDf(d, o.ents[1], kf).df)
          [] o.kind = "add_many" -> WriteCsv(AddManyDf(d, o.ents, kf).df)
          [] o.kind = "update" -> WriteCsv(UpdateDf(d, o.ents[1], kf).df)
          [] o.kind = "delete" -> WriteCsv(DeleteDf(d, o.id, kf).df)

\* C4: concurrent mutations are serialized as whole read-modify-write units: no
\* write of another task falls between a call's read and its write, so the file
\* a call leaves is the sequential effect of the call on the file as the
\* previous call left it (no lost update).
C4_Serialized ==
    \A t \in Tasks :
        /\ pc[t] \in {"body", "write"} => file = base[t]
        /\ (pc[t] = "done" /\ IsMutation(op[t].kind) /\ op[t].ents # <<>>
              /\ result[t].kind \in {"entity", "list", "true"})
           => file = SequentialEffect(op[t], base[t], key_field)

\* two calls issued together: one add is between its read and its write, the
\* other task is waiting for the loop
C4_Witness ==
    \E t1 \in Tasks : \E t2 \in Tasks \ {t1} :
        /\ pc[t1] = "write"
        /\ op[t1].kind = "add"
        /\ Len(base[t1]) = 1
        /\ pc[t2] = "ready"

\* C22: an update whose key no persisted row has returns None, and the file is
\* as it was: no row is created.
C22_UpdateAbsentNoCreate ==
    \A t \in Tasks :
        (/\ pc[t] = "done"
         /\ op[t].kind = "update"
         /\ Zfill(op[t].ents[1][key_field]) \notin PersistedKeys(base[t], key_field))
        => (result[t].kind = "none" /\ file = base[t])

\* such an update on a file that holds a row with another key
C22_Witness ==
    \E t \in Tasks :
        /\ pc[t] = "done"
        /\ op[t].kind = "update"
        /\ base[t] # <<>>
        /\ Zfill(op[t].ents[1][key_field]) \notin PersistedKeys(base[t], key_field)
        /\ result[t].kind = "none"

\* the rows of file f whose normalized key is k
KeyRows(f, kf, k) == {i \in 1..Len(f) : Zfill(f[i][kf]) = k}

\* C23: delete returns true exactly when a row with the normalized key was
\* persisted; after true the key is not found and every row with another key
\* is as it was; after false the file is as it was.
C23_DeleteExact ==
    \A t \in Tasks :
        (pc[t] = "done" /\ op[t].kind = "delete")
        => LET k == Zfill(op[t].id)
           IN  /\ (result[t].kind = "true") = (k \in PersistedKeys(base[t], key_field))
               /\ result[t].kind = "true"
                    => /\ k \notin PersistedKeys(file, key_field)
                       /\ GetDf(ReadCsv(file, key_field), op[t].id, key_field).kind = "none"
                       /\ file = Without(base[t], KeyRows(base[t], key_field, k))
               /\ result[t].kind = "false" => file = base[t]

\* C29: an update whose key a persisted row has puts the record's values in
\* every field of that row, keeps the number of rows and leaves the rows with
\* another key as they were.
C29_UpdateReplacesRow ==
    \A t \in Tasks :
        (pc[t] = "done" /\ op[t].kind = "update" /\ result[t].kind = "entity")
        => LET k == Zfill(op[t].ents[1][key_field])
               row == WriteCsv(<<ModelToDict(op[t].ents[1], key_field)>>)[1]
           IN  /\ Len(file) = Len(base[t])
               /\ \A i \in 1..Len(file) :
                     file[i] = IF i \in KeyRows(base[t], key_field, k) THEN row ELSE base[t][i]

\* C24: get for a key no persisted row has returns None, also on an empty
\* file, and get_all on an empty file returns the empty list; neither raises.
C24_NotFoundIsNotAnError ==
    \A t \in Tasks :
        /\ (/\ pc[t] = "done"
            /\ running = t
            /\ op[t].kind = "get"
            /\ Zfill(op[t].id) \notin PersistedKeys(file, key_field))
           => result[t].kind = "none"
        /\ (pc[t] = "done" /\ running = t /\ op[t].kind = "get_all" /\ file = <<>>)
           => result[t] = Result("entities", <<>>)

\* a get for an absent key on a file that holds another key
C24_Witness ==
    \E t \in Tasks :
        /\ pc[t] = "done"
        /\ running = t
        /\ op[t].kind = "get"
        /\ file # <<>>
        /\ Zfill(op[t].id) \notin PersistedKeys(file, key_field)
        /\ result[t].kind = "none"

\* C21: a date-range query whose range covers every persisted record returns
\* what get_all returns, the unset optional field of a record as None; neither
\* read path fails.
C21_ReadPathsAgree ==
    \A t \in Tasks :
        (/\ pc[t] = "done"
         /\ running = t
         /\ op[t].kind = "get_by_date_range"
         /\ file # <<>>
         /\ \A i \in 1..Len(file) :
               /\ ToDatetime(file[i]["date"]) >= op[t].start_date
               /\ ToDatetime(file[i]["date"]) <= op[t].end_date)
        => LET all == GetAllDf(ReadCsv(file, key_field), key_field)
           IN  /\ ~all.err
               /\ result[t] = Result("entities", all.ents)
               /\ \A i \in 1..Len(file) : file[i]["opt"] = "" => all.ents[i].opt = None

\* C28: in the report store, add refuses a report whose symbol and report date
\* are those of a persisted row, and accepts a report whose symbol a persisted
\* row has with another report date: the file then holds both rows.
C28_SameSymbolOtherDayKept ==
    \A t \in Tasks :
        (pc[t] = "done" /\ op[t].kind = "add" /\ key_field = "symbol")
        => LET e == op[t].ents[1]
               same == KeyRows(base[t], "symbol", Zfill(e.symbol))
               sameday == {i \in same : base[t][i]["date"] = IsoFormat(e.date)}
           IN  /\ sameday # {} => (result[t].kind = "StorageError" /\ file = base[t])
               /\ sameday = {}
                    => /\ result[t].kind = "entity"
                       /\ Len(file) = Len(base[t]) + 1
                       /\ \A i \in same : file[i]["date"] = base[t][i]["date"]

\* C20: a date-range query answers with exactly the stored records whose
\* timestamp lies in [start_date, end_date], both bounds included.
C20_DateRangeInclusive ==
    \A t \in Tasks :
        (pc[t] = "done" /\ running = t /\ op[t].kind = "get_by_date_range")
        => /\ result[t].kind = "entities"
           /\ LET inside == {i \in 1..Len(file) :
                                /\ ToDatetime(file[i]["date"]) >= op[t].start_date
                                /\ ToDatetime(file[i]["date"]) <= op[t].end_date}
              IN  /\ Len(result[t].val) = Cardinality(inside)
                  /\ {result[t].val[j][key_field] : j \in 1..Len(result[t].val)}
                       = {file[i][key_field] : i \in inside}

\* C34: get_by_symbol(s) returns the reports the file holds for symbol s, those
\* of the range when a range is given: as many reports as the file has rows
\* stored for s, each with symbol s.
C34_GetBySymbolFindsStored ==
    \A t \in Tasks :
        (pc[t] = "done" /\ running = t /\ op[t].kind = "get_by_symbol")
        => /\ result[t].kind = "entities"
           /\ LET ranged == op[t].start_date # 0 /\ op[t].end_date # 0
                  stored == {i \in 1..Len(file) :
                                /\ file[i]["symbol"] = Zfill(op[t].id)
                                /\ ranged =>
                                      /\ ToDatetime(file[i]["date"]) >= op[t].start_date
                                      /\ ToDatetime(file[i]["date"]) <= op[t].end_date}
              IN  /\ Len(result[t].val) = Cardinality(stored)
                  /\ \A j \in 1..Len(result[t].val) : result[t].val[j].symbol = op[t].id

\* C5: after add accepts r, get(key of r) returns a record equal to r field for
\* field, the key field in its stored fixed-width form, the timestamp the same
\* instant; in the identifier store and in the report store.
C5_RoundTrip ==
    \A t \in Tasks :
        (pc[t] = "done" /\ op[t].kind = "add" /\ result[t].kind = "entity")
        => LET r == op[t].ents[1]
           IN  GetDf(ReadCsv(file, key_field), r[key_field], key_field)
                 = Result("entity", [r EXCEPT ![key_field] = Zfill(r[key_field])])

-----------------------------------------------------------------------------
(* BaseAPIClient._make_request under the tenacity retry decorator.  Every  *)
(* action runs a task from one suspension point (lock, sleep, request) to  *)
(* the next.                                                               *)

\* the configured settings.MAX_RETRIES
MAX_RETRIES == 2

\* settings.RETRY_BACKOFF_FACTOR and the bounds of wait_exponential, in seconds
RETRY_BACKOFF_FACTOR == 2
RETRY_WAIT_MIN == 1
RETRY_WAIT_MAX == 60

\* the configured settings.REQUEST_TIMEOUT_SECONDS (ClientTimeout(total=...))
REQUEST_TIMEOUT == 3

\* the model stops the clock here
MaxTime == 8

\* ClientSession(raise_for_status=True): a status of 400 or more raises
\* ClientResponseError out of session.request()
RaiseForStatus == TRUE

\* what the server or the network does to one dispatched request
Outcomes == {"ok", "timeout", "error", "http_429", "bad_json"}

Max2(a, b) == IF a >= b THEN a ELSE b
Min2(a, b) == IF a <= b THEN a ELSE b

RECURSIVE Pow2(_)
Pow2(n) == IF n = 0 THEN 1 ELSE 2 * Pow2(n - 1)

\* wait_exponential(multiplier, min=1, max=60) after attempt number n
RetryWait(n) ==
    Max2(Max2(0, RETRY_WAIT_MIN), Min2(RETRY_BACKOFF_FACTOR * Pow2(n - 1), RETRY_WAIT_MAX))

\* stop_after_attempt that allows one attempt too many
StopAfterAttempt_OffByOne(n) == n > MAX_RETRIES

\* stop_after_attempt(settings.MAX_RETRIES)
StopAfterAttempt(n) == n >= MAX_RETRIES

\* the exception raised inside the try block of _make_request
InnerError(outcome) ==
    CASE outcome = "ok" -> "none"
      [] outcome = "timeout" -> "TimeoutError"
      [] outcome = "error" -> "ClientError"
      [] outcome = "http_429" ->
            IF RaiseForStatus THEN "ClientResponseError" ELSE "RateLimitError"
      [] outcome = "bad_json" -> "APIError"

\* the except clauses of _make_request (lines 131-142): a timeout and every other
\* exception, RateLimitError and the APIError of _handle_response included,
\* leave as a new APIError
RaisedError(outcome) ==
    LET inner == InnerError(outcome)
    IN  IF inner = "none" THEN "none"
        ELSE IF inner = "TimeoutError" THEN "APIError"
        ELSE "APIError"

\* retry_if_exception_type(APIError); RateLimitError is a subclass of APIError
ShouldRetry(err) == err \in {"APIError", "RateLimitError"}

\* line 120 runs once the response context is entered
SetsLastRequestTime(outcome) ==
    \/ outcome \in {"ok", "bad_json"}
    \/ outcome = "http_429" /\ ~RaiseForStatus

\* session.request(...) is sent at the current time
Dispatch(t) ==
    /\ cpc' = [cpc EXCEPT ![t] = "inflight"]
    /\ last_dispatch' = clock
    /\ gap' = IF last_dispatch = -1 THEN -1 ELSE clock - last_dispatch

\* a caller enters get / post / _make_request
Request(t) ==
    /\ cpc[t] = "idle"
    /\ cpc' = [cpc EXCEPT ![t] = "attempt"]
    /\ UNCHANGED <<clock, last_request_time, session, client_lock, wake, hist, cres,
                   last_dispatch, gap>>
    /\ UNCHANGED <<repoVars, svcVars, walkVars, cikVars, lifeVars, surVars, mntVars, shapeVars, lockVars>>

\* one attempt, from setup to the first suspension: the lock is taken when it is
\* free (else the task waits), then the task sleeps the rest of the interval or
\* sends at once
StartAttempt(t) ==
    /\ cpc[t] = "attempt"
    /\ client_lock = None
    /\ client_lock' = t
    /\ session' = "open"
    /\ LET time_since_last_request == clock - last_request_time
       IN  IF time_since_last_request < RATE_LIMIT
           THEN /\ cpc' = [cpc EXCEPT ![t] = "pacing"]
                /\ wake' = [wake EXCEPT ![t] = clock + (RATE_LIMIT - time_since_last_request)]
                /\ UNCHANGED <<last_dispatch, gap>>
           ELSE /\ Dispatch(t)
                /\ UNCHANGED wake
    /\ UNCHANGED <<clock, last_request_time, hist, cres>>
    /\ UNCHANGED <<repoVars, svcVars, walkVars, cikVars, lifeVars, surVars, mntVars, shapeVars, lockVars>>

\* the pacing sleep is over: the request is sent
EndPacing(t) ==
    /\ cpc[t] = "pacing"
    /\ clock >= wake[t]
    /\ Dispatch(t)
    /\ UNCHANGED <<clock, last_request_time, session, client_lock, wake, hist, cres>>
    /\ UNCHANGED <<repoVars, svcVars, walkVars, cikVars, lifeVars, surVars, mntVars, shapeVars, lockVars>>

\* the request ends: a response, or an exception (the timeout no sooner than the
\* session's total timeout).  The lock is released on every path; tenacity then
\* returns, sleeps before the next attempt, or re-raises.
Respond(t, outcome) ==
    /\ cpc[t] = "inflight"
    /\ outcome = "timeout" => clock - last_dispatch >= REQUEST_TIMEOUT
    /\ client_lock' = None
    /\ last_request_time' =
          IF SetsLastRequestTime(outcome) THEN clock ELSE last_request_time
    /\ hist' = [hist EXCEPT ![t] = Append(@, outcome)]
    /\ LET err == RaisedError(outcome)
           attempt_number == Len(hist[t]) + 1
       IN  IF err = "none"
           THEN /\ cres' = [cres EXCEPT ![t] = "ok"]
                /\ cpc' = [cpc EXCEPT ![t] = "done"]
                /\ UNCHANGED wake
           ELSE IF ~ShouldRetry(err) \/ StopAfterAttempt(attempt_number)
           THEN /\ cres' = [cres EXCEPT ![t] = err]
                /\ cpc' = [cpc EXCEPT ![t] = "done"]
                /\ UNCHANGED wake
           ELSE /\ cpc' = [cpc EXCEPT ![t] = "backoff"]
                /\ wake' = [wake EXCEPT ![t] = clock + RetryWait(attempt_number)]
                /\ UNCHANGED cres
    /\ UNCHANGED <<clock, session, last_dispatch, gap>>
    /\ UNCHANGED <<repoVars, svcVars, walkVars, cikVars, lifeVars, surVars, mntVars, shapeVars, lockVars>>

\* the backoff sleep is over: the next attempt begins
EndBackoff(t) ==
    /\ cpc[t] = "backoff"
    /\ clock >= wake[t]
    /\ cpc' = [cpc EXCEPT ![t] = "attempt"]
    /\ UNCHANGED <<clock, last_request_time, session, client_lock, wake, hist, cres,
                   last_dispatch, gap>>
    /\ UNCHANGED <<repoVars, svcVars, walkVars, cikVars, lifeVars, surVars, mntVars, shapeVars, lockVars>>

\* _make_request returns or raises to its caller
EndRequest(t) ==
    /\ cpc[t] = "done"
    /\ cpc' = [cpc EXCEPT ![t] = "idle"]
    /\ hist' = [hist EXCEPT ![t] = <<>>]
    /\ cres' = [cres EXCEPT ![t] = "pending"]
    /\ wake' = [wake EXCEPT ![t] = 0]
    /\ UNCHANGED <<clock, last_request_time, session, client_lock, last_dispatch, gap>>
    /\ UNCHANGED <<repoVars, svcVars, walkVars, cikVars, lifeVars, surVars, mntVars, shapeVars, lockVars>>

\* a second passes
Tick ==
    /\ clock < MaxTime
    /\ clock' = clock + 1
    /\ UNCHANGED <<last_request_time, session, client_lock, cpc, wake, hist, cres,
                   last_dispatch, gap>>
    /\ UNCHANGED <<repoVars, svcVars, walkVars, cikVars, lifeVars, surVars, mntVars, shapeVars, lockVars>>

ClientNext ==
    \/ Tick
    \/ \E t \in Tasks :
        \/ Request(t)
        \/ StartAttempt(t)
        \/ EndPacing(t)
        \/ \E outcome \in Outcomes : Respond(t, outcome)
        \/ EndBackoff(t)
        \/ EndRequest(t)

\* the client alone: the repository is not used
ClientInit == RepoIdle /\ ClientIdle /\ SvcIdle /\ WalkIdle /\ CikIdle /\ LifeIdle /\ SurIdle
        /\ MntIdle /\ ShapeIdle /\ LockIdle

SpecClient == ClientInit /\ [][ClientNext]_vars

-----------------------------------------------------------------------------
(* Claims about the client.                                                *)

TransportFailures == {"timeout", "error"}

AllIn(h, S) == \A i \in 1..Len(h) : h[i] \in S

\* C6: two consecutive dispatches of one client are at least rate_limit_seconds
\* apart, whatever tasks issue them.
C6_MinimumSpacing == gap = -1 \/ gap >= RATE_LIMIT

C8_RateLimitNotRetried ==
    \A t \in Tasks :
        (hist[t] # <<>> /\ hist[t][1] = "http_429") =>
            (cpc[t] = "done" /\ Len(hist[t]) = 1 /\ cres[t] = "RateLimitError")

\* C9: a call whose response body is not valid JSON fails with APIError at once:
\* it is over after that one dispatch, nothing was sent after the bad body.
C9_BadJsonNotRetried ==
    \A t \in Tasks :
        (hist[t] # <<>> /\ hist[t][1] = "bad_json") =>
            (cpc[t] = "done" /\ Len(hist[t]) = 1 /\ cres[t] = "APIError")

-----------------------------------------------------------------------------
(* EarningsService.fetch_daily_earnings under concurrent callers.  The     *)
(* request to the source suspends the caller; the steps after it are       *)
(* interleaved with the other tasks as far as the processing lock allows.  *)

\* date.weekday() of day n of December 2024 (Monday is 0)
Weekday(n) == (n + 5) % 7

\* USFederalHolidayCalendar: no holiday falls on the first days of December 2024
Holidays == {}

\* a calendar on which every day is a trading day
IsTradingDay_Always(n) == TRUE

\* TradingCalendar.is_trading_day
IsTradingDay(n) == Weekday(n) < 5 /\ n \notin Holidays

\* the "date" of a source row for day n of December 2024
DateStr(n) == "2024-12-0" \o DigitChar(n)

\* datetime.strptime(date_str, "%Y-%m-%d"): <<day>>, or <<>> for ValueError
StrpTime(date_str) ==
    IF \E n \in 1..9 : DateStr(n) = date_str
    THEN <<CHOOSE n \in 1..9 : DateStr(n) = date_str>>
    ELSE <<>>

\* Decimal(str(value)) accepts the literal: digits, with or without a point
IsDecimal(value) == IsDigits(value) \/ IsFloat(value)

\* a symbol that the source sent as a JSON number
NotText == "<number>"

\* get_cik raises: symbol.upper() on a value that is not a string
LookupRaises(symbol) == symbol = NotText

\* a row of the source response
Row(s, d, e) == [symbol |-> s, date |-> d, eps_estimate |-> e]

\* the responses the source gives for date d: an empty calendar, known symbols,
\* a row without symbol, a symbol the identifier cache does not know
RawResponses(d) ==
    { <<>>,
      <<Row("AAPL", DateStr(d), "1.43")>>,
      <<Row("AAPL", DateStr(d), "1.43"), Row("MSFT", DateStr(d), "")>>,
      <<Row("", DateStr(d), ""), Row("msft", DateStr(d), "")>>,
      <<Row("IBM", DateStr(d), "1.43"), Row("AAPL", DateStr(d), "1.43")>>,
      <<Row("MSFT", DateStr(d), ""), Row("IBM", DateStr(d), "")>> }

\* CIKService.get_cik on a snapshot that knows the two sample companies
GetCik(symbol) ==
    LET normalized_symbol == NormalizeSymbol(symbol)
    IN  IF normalized_symbol = SampleSymbols[1] THEN SampleCiks[1]
        ELSE IF normalized_symbol = SampleSymbols[2] THEN SampleCiks[2]
        ELSE None

\* the row reaches reports.append: it has a symbol, the lookup gives a key,
\* the date parses and the estimate, when there is one, is a Decimal literal
Shapes(row) ==
    /\ row.symbol # ""
    /\ ~LookupRaises(row.symbol)
    /\ GetCik(row.symbol) # None
    /\ StrpTime(row.date) # <<>>
    /\ (row.eps_estimate # "" => IsDecimal(row.eps_estimate))

\* row processing that gives up at the first row it cannot shape
RECURSIVE ProcessEarningsData_StopAtBad(_)
ProcessEarningsData_StopAtBad(rows) ==
    IF rows = <<>> THEN <<>>
    ELSE LET row == Head(rows)
         IN  IF ~Shapes(row) THEN <<>>
             ELSE <<Entity(GetCik(row.symbol),
                           NormalizeSymbol(row.symbol),
                           StrpTime(row.date)[1],
                           IF row.eps_estimate = "" THEN None ELSE row.eps_estimate)>>
                  \o ProcessEarningsData_StopAtBad(Tail(rows))

\* EarningsService._process_earnings_data: a row without symbol or without a
\* known identifier is skipped ("continue"), a row whose lookup, date or
\* amount raises is skipped by "except Exception", every other row becomes a
\* report
RECURSIVE ProcessEarningsData(_)
ProcessEarningsData(rows) ==
    IF rows = <<>> THEN <<>>
    ELSE LET row == Head(rows)
             rest == ProcessEarningsData(Tail(rows))
         IN  IF row.symbol = "" THEN rest
             ELSE IF LookupRaises(row.symbol) THEN rest
             ELSE IF GetCik(row.symbol) = None THEN rest
             ELSE IF StrpTime(row.date) = <<>> THEN rest
             ELSE IF row.eps_estimate # "" /\ ~IsDecimal(row.eps_estimate) THEN rest
             ELSE <<Entity(GetCik(row.symbol),
                           NormalizeSymbol(row.symbol),
                           StrpTime(row.date)[1],
                           IF row.eps_estimate = "" THEN None ELSE row.eps_estimate)>>
                  \o rest

\* CSVRepository.add on a report file (key_field "symbol"): read, check, write
RepoAdd(f, e) ==
    LET r == AddDf(ReadCsv(f, "symbol"), e, "symbol")
    IN  [err |-> r.err, file |-> IF r.err THEN f ELSE WriteCsv(r.df)]

\* add_daily_report that writes the date partition only
AddDailyReport_DailyOnly(dfile, mfile, e) ==
    LET d == RepoAdd(dfile, e)
    IN  IF d.err THEN [err |-> TRUE, daily |-> dfile, master |-> mfile]
        ELSE [err |-> FALSE, daily |-> d.file, master |-> mfile]

\* add_daily_report that takes the row out of the date partition again when
\* the master file rejects it
AddDailyReport_Rollback(dfile, mfile, e) ==
    LET d == RepoAdd(dfile, e)
        m == RepoAdd(mfile, e)
    IN  IF d.err \/ m.err THEN [err |-> TRUE, daily |-> dfile, master |-> mfile]
        ELSE [err |-> FALSE, daily |-> d.file, master |-> m.file]

\* EarningsRepository.add_daily_report: the date partition first, then the
\* master file; any failure leaves as StorageError
AddDailyReport(dfile, mfile, e) ==
    LET d == RepoAdd(dfile, e)
        m == RepoAdd(mfile, e)
    IN  IF d.err THEN [err |-> TRUE, daily |-> dfile, master |-> mfile]
        ELSE IF m.err THEN [err |-> TRUE, daily |-> d.file, master |-> mfile]
        ELSE [err |-> FALSE, daily |-> d.file, master |-> m.file]

\* a task calls fetch_daily_earnings(date_obj): a non-trading day returns []
\* before the lock
FetchDailyEarnings(t, d) ==
    /\ spc[t] = "idle"
    /\ sdate' = [sdate EXCEPT ![t] = d]
    /\ IF ~IsTradingDay(d)
       THEN /\ spc' = [spc EXCEPT ![t] = "done"]
            /\ sres' = [sres EXCEPT ![t] = "list"]
       ELSE /\ spc' = [spc EXCEPT ![t] = "acquire"]
            /\ UNCHANGED sres
    /\ UNCHANGED <<processing_lock, raw, reports, daily, master>>
    /\ UNCHANGED <<slist, sfetches, swrote>>
    /\ UNCHANGED <<repoVars, clientVars, walkVars, cikVars, lifeVars, surVars, mntVars, shapeVars, lockVars>>

\* an entry into the section that does not wait for the lock
AcquireProcessing_NoWait(t) ==
    /\ spc[t] = "acquire"
    /\ processing_lock' = t
    /\ spc' = [spc EXCEPT ![t] = "fetch"]
    /\ sfetches' = [sfetches EXCEPT ![t] = @ + 1]
    /\ UNCHANGED <<sdate, raw, reports, daily, master, sres, slist, swrote>>
    /\ UNCHANGED <<repoVars, clientVars, walkVars, cikVars, lifeVars, surVars, mntVars, shapeVars, lockVars>>

\* async with self._processing_lock, then the request to the source is sent
AcquireProcessing(t) ==
    /\ spc[t] = "acquire"
    /\ processing_lock = None
    /\ processing_lock' = t
    /\ spc' = [spc EXCEPT ![t] = "fetch"]
    /\ sfetches' = [sfetches EXCEPT ![t] = @ + 1]
    /\ UNCHANGED <<sdate, raw, reports, daily, master, sres, slist, swrote>>
    /\ UNCHANGED <<repoVars, clientVars, walkVars, cikVars, lifeVars, surVars, mntVars, shapeVars, lockVars>>

\* get_earnings_calendar returns the rows of the date
FetchReturns(t, rows) ==
    /\ spc[t] = "fetch"
    /\ raw' = [raw EXCEPT ![t] = rows]
    /\ spc' = [spc EXCEPT ![t] = "process"]
    /\ UNCHANGED <<processing_lock, sdate, reports, daily, master, sres>>
    /\ UNCHANGED <<slist, sfetches, swrote>>
    /\ UNCHANGED <<repoVars, clientVars, walkVars, cikVars, lifeVars, surVars, mntVars, shapeVars, lockVars>>

\* get_earnings_calendar raises APIError: logged, re-raised, the lock released
FetchFails(t) ==
    /\ spc[t] = "fetch"
    /\ processing_lock' = None
    /\ spc' = [spc EXCEPT ![t] = "done"]
    /\ sres' = [sres EXCEPT ![t] = "APIError"]
    /\ UNCHANGED <<sdate, raw, reports, daily, master>>
    /\ UNCHANGED <<slist, sfetches, swrote>>
    /\ UNCHANGED <<repoVars, clientVars, walkVars, cikVars, lifeVars, surVars, mntVars, shapeVars, lockVars>>

\* _process_earnings_data on the fetched rows
Process(t) ==
    /\ spc[t] = "process"
    /\ reports' = [reports EXCEPT ![t] = ProcessEarningsData(raw[t])]
    /\ slist' = [slist EXCEPT ![t] = ProcessEarningsData(raw[t])]
    /\ spc' = [spc EXCEPT ![t] = "persist"]
    /\ UNCHANGED <<processing_lock, sdate, raw, daily, master, sres, sfetches, swrote>>
    /\ UNCHANGED <<repoVars, clientVars, walkVars, cikVars, lifeVars, surVars, mntVars, shapeVars, lockVars>>

\* one turn of the store loop: add_daily_report of the next report; a
\* StorageError ends the call and releases the lock
Persist(t) ==
    /\ spc[t] = "persist"
    /\ reports[t] # <<>>
    /\ LET r == AddDailyReport(daily[sdate[t]], master, Head(reports[t]))
       IN  /\ daily' = [daily EXCEPT ![sdate[t]] = r.daily]
           /\ master' = r.master
           /\ swrote' = [swrote EXCEPT ![t] =
                  [daily |-> @.daily + (IF r.daily # daily[sdate[t]] THEN 1 ELSE 0),
                   master |-> @.master + (IF r.master # master THEN 1 ELSE 0)]]
           /\ IF r.err
              THEN /\ processing_lock' = None
                   /\ spc' = [spc EXCEPT ![t] = "done"]
                   /\ sres' = [sres EXCEPT ![t] = "StorageError"]
                   /\ UNCHANGED reports
              ELSE /\ reports' = [reports EXCEPT ![t] = Tail(@)]
                   /\ UNCHANGED <<processing_lock, spc, sres>>
    /\ UNCHANGED <<sdate, raw, slist, sfetches>>
    /\ UNCHANGED <<repoVars, clientVars, walkVars, cikVars, lifeVars, surVars, mntVars, shapeVars, lockVars>>

\* the store loop is over: the reports are returned, the lock released
Finish(t) ==
    /\ spc[t] = "persist"
    /\ reports[t] = <<>>
    /\ processing_lock' = None
    /\ spc' = [spc EXCEPT ![t] = "done"]
    /\ sres' = [sres EXCEPT ![t] = "list"]
    /\ UNCHANGED <<sdate, raw, reports, daily, master>>
    /\ UNCHANGED <<slist, sfetches, swrote>>
    /\ UNCHANGED <<repoVars, clientVars, walkVars, cikVars, lifeVars, surVars, mntVars, shapeVars, lockVars>>

\* the caller has its result
SvcReturn(t) ==
    /\ spc[t] = "done"
    /\ spc' = [spc EXCEPT ![t] = "idle"]
    /\ sdate' = [sdate EXCEPT ![t] = 0]
    /\ raw' = [raw EXCEPT ![t] = <<>>]
    /\ reports' = [reports EXCEPT ![t] = <<>>]
    /\ sres' = [sres EXCEPT ![t] = "pending"]
    /\ slist' = [slist EXCEPT ![t] = <<>>]
    /\ sfetches' = [sfetches EXCEPT ![t] = 0]
    /\ swrote' = [swrote EXCEPT ![t] = [daily |-> 0, master |-> 0]]
    /\ UNCHANGED <<processing_lock, daily, master>>
    /\ UNCHANGED <<repoVars, clientVars, walkVars, cikVars, lifeVars, surVars, mntVars, shapeVars, lockVars>>

SvcNext ==
    \E t \in Tasks :
        \/ \E d \in SvcDates : FetchDailyEarnings(t, d)
        \/ AcquireProcessing(t)
        \/ \E rows \in RawResponses(sdate[t]) : FetchReturns(t, rows)
        \/ FetchFails(t)
        \/ Process(t)
        \/ Persist(t)
        \/ Finish(t)
        \/ SvcReturn(t)

SvcInit == RepoIdle /\ ClientIdle /\ SvcIdle /\ WalkIdle /\ CikIdle /\ LifeIdle /\ SurIdle
        /\ MntIdle /\ ShapeIdle /\ LockIdle

\* the service alone, on a fixed snapshot of the identifier cache
SpecSvc == SvcInit /\ [][SvcNext]_vars

-----------------------------------------------------------------------------
(* Claims about the service.                                               *)

\* between the dispatch of the fetch and the end of the store loop
InSequence(t) == spc[t] \in {"fetch", "process", "persist"}

\* C10: at most one task is between its fetch and its last persist, and that
\* task holds the processing lock: the sequences of two calls never interleave.
C10_SingleFlight ==
    /\ Cardinality({t \in Tasks : InSequence(t)}) <= 1
    /\ \A t \in Tasks : InSequence(t) => processing_lock = t

C10_Witness ==
    \E t1 \in Tasks : \E t2 \in Tasks \ {t1} :
        /\ spc[t1] = "persist"
        /\ reports[t1] # <<>>
        /\ daily[sdate[t1]] # <<>>
        /\ spc[t2] = "acquire"

\* the key under which the report store files a report: its symbol, zero-padded
\* by _model_to_dict like every key
ReportKey(e) == Zfill(e.symbol)

\* the rows of a report file that hold report e: its key, timestamp and estimate
RowsOf(f, e) ==
    {i \in 1..Len(f) :
        /\ f[i]["symbol"] = ReportKey(e)
        /\ f[i]["date"] = IsoFormat(e.date)
        /\ f[i]["opt"] = (IF e.opt = None THEN "" ELSE e.opt)}

RowsWithKey(f, k) == {i \in 1..Len(f) : f[i]["symbol"] = k}

DigitVal(c) == CHOOSE n \in 0..9 : DigitChar(n) = c

RECURSIVE ToInt(_)
ToInt(s) ==
    IF Len(s) = 0 THEN 0
    ELSE 10 * ToInt(SubSeq(s, 1, Len(s) - 1)) + DigitVal(CharAt(s, Len(s)))

\* Decimal(str(value)) of a literal with two decimal places, in hundredths
DecimalCents(s) ==
    LET dot == CHOOSE i \in 1..Len(s) : CharAt(s, i) = "."
    IN  100 * ToInt(SubSeq(s, 1, dot - 1)) + ToInt(SubSeq(s, dot + 1, Len(s)))

\* Decimal(str(value)) if value else None: an optional amount is <<>> or <<n>>
OptionalDecimal(s) == IF s = "" THEN <<>> ELSE <<DecimalCents(s)>>

\* EarningsReport.calculate_surprises on one pair: set only when both sides are
CalculateSurprises(estimate, actual) ==
    IF estimate # <<>> /\ actual # <<>> THEN <<actual[1] - estimate[1]>> ELSE <<>>

\* a call for a trading day that has returned its list
ReturnedNormally(t) ==
    spc[t] = "done" /\ sres[t] = "list" /\ Weekday(sdate[t]) < 5

C13_NoRollbackNoLaterWrite ==
    \A t \in Tasks :
        (spc[t] = "done" /\ sres[t] = "StorageError") =>
            LET n == Len(slist[t]) - Len(reports[t])
            IN  /\ reports[t] # <<>>
                /\ RowsWithKey(daily[sdate[t]], ReportKey(Head(reports[t]))) # {}
                /\ swrote[t].master = n
                /\ swrote[t].daily \in {n, n + 1}

C13_Witness ==
    \E t \in Tasks :
        /\ spc[t] = "done"
        /\ sres[t] = "StorageError"
        /\ swrote[t].daily = swrote[t].master + 1
        /\ Len(reports[t]) >= 2

\* C14: a call for a Saturday or a Sunday ends at once with an empty list: it
\* sends no request to the source, never holds the processing lock and writes no
\* row to any file.
C14_NonTradingDayShortCircuit ==
    \A t \in Tasks :
        (spc[t] # "idle" /\ Weekday(sdate[t]) >= 5) =>
            /\ spc[t] = "done"
            /\ sres[t] = "list"
            /\ slist[t] = <<>>
            /\ sfetches[t] = 0
            /\ processing_lock # t
            /\ swrote[t] = [daily |-> 0, master |-> 0]

C14_Witness ==
    \E t \in Tasks :
        /\ spc[t] = "done"
        /\ Weekday(sdate[t]) >= 5
        /\ master # <<>>

\* a row that has a symbol the identifier cache knows
Resolvable(row) == row.symbol # "" /\ GetCik(row.symbol) # None

\* C15: the reports of a batch are the reports of its resolvable rows, in their
\* order; a row without symbol or with an unknown symbol gives none and takes
\* none away, wherever it stands.
C15_UnresolvableRowsSkipped ==
    \A t \in Tasks :
        spc[t] = "persist" =>
            LET kept == SelectSeq(raw[t], Resolvable)
            IN  /\ Len(slist[t]) = Len(kept)
                /\ \A i \in 1..Len(kept) :
                      /\ slist[t][i].symbol = NormalizeSymbol(kept[i].symbol)
                      /\ slist[t][i].cik = GetCik(kept[i].symbol)
                      /\ <<slist[t][i].date>> = StrpTime(kept[i].date)

C15_Witness ==
    \E t \in Tasks :
        /\ spc[t] = "persist"
        /\ Len(raw[t]) = 2
        /\ ~Resolvable(raw[t][2])
        /\ Len(slist[t]) = 1

\* no two rows of a report file have the same symbol and the same report date
NoTwoReportsOfOneDay(f) ==
    \A i, j \in 1..Len(f) :
        i # j => ~(f[i]["symbol"] = f[j]["symbol"] /\ f[i]["date"] = f[j]["date"])

\* the next report of the store loop of t is already in the partition of its date
AlreadyIngested(t) ==
    /\ spc[t] = "persist"
    /\ reports[t] # <<>>
    /\ RowsOf(daily[sdate[t]], Head(reports[t])) # {}

\* C37: no date partition and no master file ever holds two reports with the
\* same symbol and the same report date, and a store loop that comes to a report
\* the partition of its date already holds adds no row to either store.
C37_ReingestionAddsNoRow ==
    /\ [](NoTwoReportsOfOneDay(master)
          /\ \A d \in SvcDates : NoTwoReportsOfOneDay(daily[d]))
    /\ [][\A t \in Tasks :
             AlreadyIngested(t) => (daily' = daily /\ master' = master)]_vars

\* a second call for a date has ended on a report that the first call had
\* stored, and wrote nothing
C37_Witness ==
    \E t \in Tasks :
        /\ spc[t] = "done"
        /\ sres[t] = "StorageError"
        /\ slist[t] # <<>>
        /\ reports[t] = slist[t]
        /\ RowsOf(daily[sdate[t]], Head(reports[t])) # {}
        /\ RowsOf(master, Head(reports[t])) # {}
        /\ swrote[t] = [daily |-> 0, master |-> 0]

-----------------------------------------------------------------------------
(* EarningsService._process_earnings_data on its own: one call on a batch  *)
(* of raw rows, on a fixed snapshot of the identifier cache.               *)

\* the longest batch of rows
MaxBatch == 3

\* the rows a response is made of: two rows that shape, a row without symbol,
\* an unknown symbol, a date in another format, an amount that is no number,
\* a symbol that is no text
ShapeRows ==
    { Row("AAPL", DateStr(5), "1.43"),
      Row("msft", DateStr(5), ""),
      Row("", DateStr(5), ""),
      Row("IBM", DateStr(5), "1.43"),
      Row("AAPL", "12/05/2024", "1.43"),
      Row("MSFT", DateStr(5), "N/A"),
      Row(NotText, DateStr(5), "1.43") }

ShapeBatches == UNION {[1..n -> ShapeRows] : n \in 0..MaxBatch}

\* reports = await self._process_earnings_data(raw_data): the loop catches
\* every exception of a row, so the call returns its list
ProcessRows ==
    /\ shape_out = NoShape
    /\ shape_out' = [kind |-> "list", reports |-> ProcessEarningsData(shape_rows)]
    /\ UNCHANGED shape_rows
    /\ UNCHANGED <<repoVars, clientVars, svcVars, walkVars, cikVars, lifeVars, surVars>>
    /\ UNCHANGED <<mntVars, lockVars>>

ShapeNext == ProcessRows

ShapeInit ==
    /\ RepoIdle /\ ClientIdle /\ SvcIdle /\ WalkIdle /\ CikIdle /\ LifeIdle /\ SurIdle
    /\ MntIdle /\ LockIdle
    /\ shape_rows \in ShapeBatches
    /\ shape_out = NoShape

\* one call of _process_earnings_data on each batch
SpecShape == ShapeInit /\ [][ShapeNext]_vars

\* a row that fails on its own: no symbol, a lookup that raises or finds
\* nothing, a date that does not parse, an amount that is no number
FailsAlone(row) ==
    \/ row.symbol = ""
    \/ LookupRaises(row.symbol)
    \/ GetCik(row.symbol) = None
    \/ StrpTime(row.date) = <<>>
    \/ (row.eps_estimate # "" /\ ~IsDecimal(row.eps_estimate))

NotFailing(row) == ~FailsAlone(row)

\* C32: the call returns a list, never raises, and the list holds the reports
\* of the rows that do not fail on their own, one each, in the order of the
\* input: a failing row takes away nothing but its own report.
C32_RowFailuresDropOnlyThatRow ==
    shape_out # NoShape =>
        LET kept == SelectSeq(shape_rows, NotFailing)
        IN  /\ shape_out.kind = "list"
            /\ Len(shape_out.reports) = Len(kept)
            /\ \A i \in 1..Len(kept) :
                  /\ shape_out.reports[i].symbol = NormalizeSymbol(kept[i].symbol)
                  /\ shape_out.reports[i].cik = GetCik(kept[i].symbol)
                  /\ <<shape_out.reports[i].date>> = StrpTime(kept[i].date)

\* a batch with a row whose date does not parse between two rows that shape
C32_Witness ==
    /\ shape_out # NoShape
    /\ Len(shape_rows) = 3
    /\ ~FailsAlone(shape_rows[1])
    /\ StrpTime(shape_rows[2].date) = <<>>
    /\ ~FailsAlone(shape_rows[3])
    /\ Len(shape_out.reports) = 2

-----------------------------------------------------------------------------
(* scripts/maintenance.py: clean_duplicate_data and rebuild_daily_files on *)
(* the report repository.  The script is the only user of the files while  *)
(* it runs, and the repository does not suspend: each function is one step.*)

\* the most rows of a master file the functions are run on
MaxMaster == 3

\* reports of the two sample companies for Thursday 5 and Friday 6 December
MaintReports ==
    {Entity(SampleCiks[i], SampleSymbols[i], d, "1.43") : i \in 1..2, d \in {5, 6}}

\* the master files add_many writes, in one batch, to an empty master store:
\* the batch is not checked against itself, so a report may be there twice
MasterFiles ==
    {WriteCsv(AddManyDf(<<>>, es, "symbol").df) :
        es \in UNION {[1..n -> MaintReports] : n \in 0..MaxMaster}}

RECURSIVE Duplicates(_, _)
\* the loop of lines 100-105: the reports whose (symbol, report_date) was seen
\* in an earlier report
Duplicates(all_reports, seen_reports) ==
    IF all_reports = <<>> THEN <<>>
    ELSE LET r == Head(all_reports)
             key == <<r.symbol, r.date>>
         IN  IF key \in seen_reports
             THEN <<r>> \o Duplicates(Tail(all_reports), seen_reports)
             ELSE Duplicates(Tail(all_reports), seen_reports \cup {key})

RECURSIVE DeleteEach(_, _)
\* the loop of lines 108-109: repository.delete(report.symbol) for each
\* duplicate; delete writes the file when it found the key
DeleteEach(f, duplicates) ==
    IF duplicates = <<>> THEN f
    ELSE LET r == DeleteDf(ReadCsv(f, "symbol"), Head(duplicates).symbol, "symbol")
         IN  DeleteEach(IF r.found THEN WriteCsv(r.df) ELSE f, Tail(duplicates))

\* clean_duplicate_data: get_all, the duplicates, their deletion, the count;
\* an exception is logged and raised again
CleanDuplicateData ==
    /\ mop = "none"
    /\ mop' = "clean_duplicate_data"
    /\ mbefore' = [master |-> master, daily |-> daily]
    /\ LET all == GetAllDf(ReadCsv(master, "symbol"), "symbol")
           duplicates == Duplicates(all.ents, {})
       IN  IF all.err
           THEN /\ mret' = [kind |-> "StorageError", n |-> 0]
                /\ UNCHANGED master
           ELSE /\ mret' = [kind |-> "int", n |-> Len(duplicates)]
                /\ master' = DeleteEach(master, duplicates)
    /\ UNCHANGED <<processing_lock, spc, sdate, raw, reports, daily, sres,
                   slist, sfetches, swrote>>
    /\ UNCHANGED <<repoVars, clientVars, walkVars, cikVars, lifeVars, surVars>>
    /\ UNCHANGED <<shapeVars, lockVars>>

\* the dates of the reports, in the order of their first report (the keys of
\* reports_by_date)
RECURSIVE DatesOf(_, _)
DatesOf(all_reports, seen) ==
    IF all_reports = <<>> THEN <<>>
    ELSE IF Head(all_reports).date \in seen THEN DatesOf(Tail(all_reports), seen)
    ELSE <<Head(all_reports).date>>
         \o DatesOf(Tail(all_reports), seen \cup {Head(all_reports).date})

\* the reports in the order of the two loops of lines 144-147: date by date
RECURSIVE ByDate(_, _)
ByDate(all_reports, dates) ==
    IF dates = <<>> THEN <<>>
    ELSE LET OfDate(r) == r.date = Head(dates)
         IN  SelectSeq(all_reports, OfDate) \o ByDate(all_reports, Tail(dates))

RECURSIVE AddEach(_, _, _)
\* add_daily_report(date_datetime, report) for each report; the first
\* StorageError ends the loops
AddEach(dfiles, mfile, todo) ==
    IF todo = <<>> THEN [err |-> FALSE, daily |-> dfiles, master |-> mfile]
    ELSE LET e == Head(todo)
             r == AddDailyReport(dfiles[e.date], mfile, e)
             written == [dfiles EXCEPT ![e.date] = r.daily]
         IN  IF r.err THEN [err |-> TRUE, daily |-> written, master |-> r.master]
             ELSE AddEach(written, r.master, Tail(todo))

\* rebuild_daily_files: get_all, the reports grouped by date, add_daily_report
\* for each, the number of dates; an exception is logged and raised again
RebuildDailyFiles ==
    /\ mop = "none"
    /\ mop' = "rebuild_daily_files"
    /\ mbefore' = [master |-> master, daily |-> daily]
    /\ LET all == GetAllDf(ReadCsv(master, "symbol"), "symbol")
           dates == DatesOf(all.ents, {})
           r == AddEach(daily, master, ByDate(all.ents, dates))
       IN  IF all.err
           THEN /\ mret' = [kind |-> "StorageError", n |-> 0]
                /\ UNCHANGED <<daily, master>>
           ELSE /\ mret' = IF r.err THEN [kind |-> "StorageError", n |-> 0]
                                     ELSE [kind |-> "int", n |-> Len(dates)]
                /\ daily' = r.daily
                /\ master' = r.master
    /\ UNCHANGED <<processing_lock, spc, sdate, raw, reports, sres,
                   slist, sfetches, swrote>>
    /\ UNCHANGED <<repoVars, clientVars, walkVars, cikVars, lifeVars, surVars>>
    /\ UNCHANGED <<shapeVars, lockVars>>

MaintNext == CleanDuplicateData \/ RebuildDailyFiles

\* a master file with its date partitions missing; everything else as built
MaintInit ==
    /\ RepoIdle /\ ClientIdle /\ WalkIdle /\ CikIdle /\ LifeIdle /\ SurIdle
    /\ MntIdle /\ ShapeIdle /\ LockIdle
    /\ processing_lock = None
    /\ spc = [t \in Tasks |-> "idle"]
    /\ sdate = [t \in Tasks |-> 0]
    /\ raw = [t \in Tasks |-> <<>>]
    /\ reports = [t \in Tasks |-> <<>>]
    /\ daily = [d \in SvcDates |-> <<>>]
    /\ master \in MasterFiles
    /\ sres = [t \in Tasks |-> "pending"]
    /\ slist = [t \in Tasks |-> <<>>]
    /\ sfetches = [t \in Tasks |-> 0]
    /\ swrote = [t \in Tasks |-> [daily |-> 0, master |-> 0]]

\* one run of a maintenance function on each master file
SpecMaint == MaintInit /\ [][MaintNext]_vars

\* the rows of file f for symbol s (as stored) and date string d
ReportRows(f, s, d) == {i \in 1..Len(f) : f[i]["symbol"] = s /\ f[i]["date"] = d}

\* C35: clean_duplicate_data returns a number, after it the master file has
\* exactly one row for every symbol and date it had a row for, a row that had
\* no duplicate is as it was, and the number is the number of rows removed.
C35_CleanRemovesOnlyDuplicates ==
    mop = "clean_duplicate_data" =>
        /\ mret.kind = "int"
        /\ mret.n = Len(mbefore.master) - Len(master)
        /\ \A i \in 1..Len(mbefore.master) :
              LET row == mbefore.master[i]
              IN  /\ Cardinality(ReportRows(master, row["symbol"], row["date"])) = 1
                  /\ Cardinality(ReportRows(mbefore.master, row["symbol"], row["date"])) = 1
                        => \E j \in 1..Len(master) : master[j] = row

\* C36: rebuild_daily_files returns without error, leaves the master file as
\* it was and the partition of every date holds exactly the reports the master
\* file has for that date.
C36_RebuildCreatesPartitions ==
    mop = "rebuild_daily_files" =>
        /\ mret.kind = "int"
        /\ master = mbefore.master
        /\ \A d \in SvcDates :
              /\ \A i \in 1..Len(daily[d]) : daily[d][i]["date"] = IsoFormat(d)
              /\ \A i \in 1..Len(master) :
                    master[i]["date"] = IsoFormat(d) =>
                        Cardinality(ReportRows(daily[d], master[i]["symbol"], IsoFormat(d)))
                          = Cardinality(ReportRows(master, master[i]["symbol"], IsoFormat(d)))

-----------------------------------------------------------------------------
(* EarningsService.update_earnings_data: the walk over a range of dates,   *)
(* one fetch_daily_earnings per date.                                      *)

\* TradingCalendar.next_trading_day: the first trading day after day n
RECURSIVE NextTradingDay(_)
NextTradingDay(n) ==
    IF IsTradingDay(n + 1) THEN n + 1 ELSE NextTradingDay(n + 1)

\* results[current_date] = count
Record(results, d, count) ==
    [x \in (DOMAIN results) \cup {d} |-> IF x = d THEN count ELSE results[x]]

\* a task calls update_earnings_data(start_date, end_date)
UpdateEarningsData(t, start, end) ==
    /\ wpc[t] = "idle"
    /\ spc[t] = "idle"
    /\ wpc' = [wpc EXCEPT ![t] = "walking"]
    /\ wrange' = [wrange EXCEPT ![t] = [start |-> start, end |-> end]]
    /\ wcur' = [wcur EXCEPT ![t] = start]
    /\ UNCHANGED <<wresults, wfailed>>
    /\ UNCHANGED <<repoVars, clientVars, svcVars, cikVars, lifeVars, surVars, mntVars, shapeVars, lockVars>>

\* the loop body starts: fetch_daily_earnings(current_date)
WalkCall(t) ==
    /\ wpc[t] = "walking"
    /\ wcur[t] <= wrange[t].end
    /\ FetchDailyEarnings(t, wcur[t])

\* a walk that gives up at the first date whose fetch raises
WalkRecord_Abort(t) ==
    /\ wpc[t] = "walking"
    /\ spc[t] = "done"
    /\ IF sres[t] = "list"
       THEN /\ wresults' = [wresults EXCEPT ![t] = Record(@, wcur[t], Len(slist[t]))]
            /\ wcur' = [wcur EXCEPT ![t] = NextTradingDay(@)]
            /\ UNCHANGED <<wpc, wfailed>>
       ELSE /\ wpc' = [wpc EXCEPT ![t] = "done"]
            /\ wfailed' = [wfailed EXCEPT ![t] = @ \cup {wcur[t]}]
            /\ UNCHANGED <<wresults, wcur>>
    /\ spc' = [spc EXCEPT ![t] = "idle"]
    /\ sdate' = [sdate EXCEPT ![t] = 0]
    /\ raw' = [raw EXCEPT ![t] = <<>>]
    /\ reports' = [reports EXCEPT ![t] = <<>>]
    /\ sres' = [sres EXCEPT ![t] = "pending"]
    /\ slist' = [slist EXCEPT ![t] = <<>>]
    /\ sfetches' = [sfetches EXCEPT ![t] = 0]
    /\ swrote' = [swrote EXCEPT ![t] = [daily |-> 0, master |-> 0]]
    /\ UNCHANGED <<processing_lock, daily, master, wrange>>
    /\ UNCHANGED <<repoVars, clientVars, cikVars, lifeVars, surVars, mntVars, shapeVars, lockVars>>

\* the fetch is over: its count, or 0 when it raised, is recorded and the walk
\* steps to the next trading day
WalkRecord(t) ==
    /\ wpc[t] = "walking"
    /\ spc[t] = "done"
    /\ wresults' = [wresults EXCEPT ![t] =
          Record(@, wcur[t], IF sres[t] = "list" THEN Len(slist[t]) ELSE 0)]
    /\ wfailed' = [wfailed EXCEPT ![t] =
          IF sres[t] = "list" THEN @ ELSE @ \cup {wcur[t]}]
    /\ wcur' = [wcur EXCEPT ![t] = NextTradingDay(@)]
    /\ spc' = [spc EXCEPT ![t] = "idle"]
    /\ sdate' = [sdate EXCEPT ![t] = 0]
    /\ raw' = [raw EXCEPT ![t] = <<>>]
    /\ reports' = [reports EXCEPT ![t] = <<>>]
    /\ sres' = [sres EXCEPT ![t] = "pending"]
    /\ slist' = [slist EXCEPT ![t] = <<>>]
    /\ sfetches' = [sfetches EXCEPT ![t] = 0]
    /\ swrote' = [swrote EXCEPT ![t] = [daily |-> 0, master |-> 0]]
    /\ UNCHANGED <<processing_lock, daily, master, wpc, wrange>>
    /\ UNCHANGED <<repoVars, clientVars, cikVars, lifeVars, surVars, mntVars, shapeVars, lockVars>>

\* current_date is past end_date: the results are returned
WalkEnd(t) ==
    /\ wpc[t] = "walking"
    /\ spc[t] = "idle"
    /\ wcur[t] > wrange[t].end
    /\ wpc' = [wpc EXCEPT ![t] = "done"]
    /\ UNCHANGED <<wrange, wcur, wresults, wfailed>>
    /\ UNCHANGED <<repoVars, clientVars, svcVars, cikVars, lifeVars, surVars, mntVars, shapeVars, lockVars>>

\* the caller has the results
WalkReturn(t) ==
    /\ wpc[t] = "done"
    /\ wpc' = [wpc EXCEPT ![t] = "idle"]
    /\ wrange' = [wrange EXCEPT ![t] = [start |-> 0, end |-> 0]]
    /\ wcur' = [wcur EXCEPT ![t] = 0]
    /\ wresults' = [wresults EXCEPT ![t] = <<>>]
    /\ wfailed' = [wfailed EXCEPT ![t] = {}]
    /\ UNCHANGED <<repoVars, clientVars, svcVars, cikVars, lifeVars, surVars, mntVars, shapeVars, lockVars>>

\* the task that walks ranges: the scraper runs one update_earnings_data at a
\* time
Walkers == {"t1"}

WalkNext ==
    \E t \in Walkers :
        \/ \E start \in SvcDates : \E end \in SvcDates : UpdateEarningsData(t, start, end)
        \/ WalkCall(t)
        \/ WalkRecord(t)
        \/ WalkEnd(t)
        \/ WalkReturn(t)
        \/ AcquireProcessing(t)
        \/ \E rows \in RawResponses(sdate[t]) : FetchReturns(t, rows)
        \/ FetchFails(t)
        \/ Process(t)
        \/ Persist(t)
        \/ Finish(t)

WalkInit == RepoIdle /\ ClientIdle /\ SvcIdle /\ WalkIdle /\ CikIdle /\ LifeIdle /\ SurIdle
        /\ MntIdle /\ ShapeIdle /\ LockIdle

\* range ingestion, one walk after the other
SpecWalk == WalkInit /\ [][WalkNext]_vars

\* the trading days of a range
TradingDaysIn(start, end) == {d \in start..end : Weekday(d) < 5 /\ d \notin Holidays}

\* C16: a walk that is over was not cut short by a date whose fetch raised: that
\* date is in the results with count 0, and every trading day of the range is
\* in the results.
C16_WalkSurvivesErrors ==
    \A t \in Tasks :
        /\ wpc[t] \in {"walking", "done"} =>
              \A d \in wfailed[t] : d \in DOMAIN wresults[t] /\ wresults[t][d] = 0
        /\ wpc[t] = "done" =>
              /\ wcur[t] > wrange[t].end
              /\ TradingDaysIn(wrange[t].start, wrange[t].end) \subseteq DOMAIN wresults[t]

C16_Witness ==
    \E t \in Tasks :
        /\ wpc[t] = "done"
        /\ wrange[t] = [start |-> 5, end |-> 6]
        /\ wfailed[t] = {5}
        /\ wresults[t][6] > 0

\* C33: the map a finished walk returns has exactly the trading days of the
\* range as keys: no day that is not a trading day is a key, the start date
\* included, and a range with start after end gives the empty map.
C33_KeysAreTradingDays ==
    \A t \in Tasks :
        wpc[t] = "done" =>
            DOMAIN wresults[t] = TradingDaysIn(wrange[t].start, wrange[t].end)

-----------------------------------------------------------------------------
(* CIKService: the cache of identifier records over the identifier store   *)
(* (key_field "cik") and the sync from the source.  A task runs from one   *)
(* suspension point to the next; the only suspension inside the service is *)
(* the request to the source in update_company_list.                       *)

\* the lifetime of a refresh, timedelta(hours=24)
CACHE_TTL == 24

\* the model's clock stops here
MaxClock == 32

\* a freshness test that never finds the cache fresh
IsFresh_Never(last, now) == FALSE

\* a freshness test that still finds the cache fresh at 24 hours
IsFresh_Inclusive(last, now) == last # <<>> /\ now - last[1] <= CACHE_TTL

\* the test of line 44: refreshed before, and less than 24 hours ago
IsFresh(last, now) == last # <<>> /\ now - last[1] < CACHE_TTL

\* a sync that leaves the refresh stamp as it is
ForceRefresh_Keep(last) == last

\* self._last_refresh = None (line 139)
ForceRefresh(last) == <<>>

Max(S) == CHOOSE x \in S : \A y \in S : x >= y

\* self._cache.get(symbol) on {company.symbol: company for company in companies}:
\* of two companies with one symbol the dict keeps the later
CacheGet(companies, symbol) ==
    LET idx == {i \in 1..Len(companies) : companies[i].symbol = symbol}
    IN  IF idx = {}
        THEN [kind |-> "None", val |-> NoEntity, symbols |-> {}]
        ELSE [kind |-> "entity", val |-> companies[Max(idx)], symbols |-> {}]

\* a field the source row does not have
Absent == "<absent>"

SecRow(ticker, cik_str, title) == [ticker |-> ticker, cik_str |-> cik_str, title |-> title]

\* the values of the source's company_tickers.json: two good rows, a row in
\* lower case, two symbols with one key, a row without symbol, without key,
\* without title, and with a key that is not a number
CompanyTickers ==
    { <<SecRow("AAPL", "1", "Apple"), SecRow("msft", "2", "Microsoft")>>,
      <<SecRow("MSFT", "2", "Microsoft")>>,
      <<SecRow("AAPL", "1", "Alphabet"), SecRow("MSFT", "1", "Alphabet")>>,
      <<SecRow(Absent, "1", "Apple"), SecRow("MSFT", "2", "Microsoft")>>,
      <<SecRow("AAPL", Absent, "Apple"), SecRow("MSFT", "2", "Microsoft")>>,
      <<SecRow("AAPL", "1", Absent), SecRow("MSFT", "2", "Microsoft")>>,
      <<SecRow("AAPL", "1A", "Apple"), SecRow("MSFT", "2", "Microsoft")>> }

\* Company(cik=str(data["cik_str"]).zfill(10), symbol=symbol, name=data["title"])
\* passes validation: ten digits, a symbol of 1 to 10 characters, a name
ValidCompany(data, symbol) ==
    /\ Len(Zfill(data.cik_str)) = KeyWidth /\ IsDigits(Zfill(data.cik_str))
    /\ Len(symbol) >= 1 /\ Len(symbol) <= 10
    /\ Len(data.title) >= 1

RECURSIVE ProcessCompanyData(_, _)
\* the loop of lines 109-129 over the rows.  raised: a row without "cik_str"
\* or "title" raises KeyError, which "except ValueError" does not catch, and
\* the loop ends there.
ProcessCompanyData(rows, known) ==
    IF rows = <<>> THEN [raised |-> FALSE, new_companies |-> <<>>]
    ELSE LET data == Head(rows)
             symbol == NormalizeSymbol(data.ticker)
             rest == ProcessCompanyData(Tail(rows), known)
         IN  IF data.ticker = Absent \/ data.ticker = "" THEN rest
             ELSE IF symbol \in known THEN rest
             ELSE IF data.cik_str = Absent \/ data.title = Absent
             THEN [raised |-> TRUE, new_companies |-> <<>>]
             ELSE IF ~ValidCompany(data, symbol) THEN rest
             ELSE [raised |-> rest.raised,
                   new_companies |->
                       <<Entity(Zfill(data.cik_str), symbol, 1, None)>> \o rest.new_companies]

SymbolsOf(companies) == {companies[i].symbol : i \in 1..Len(companies)}

CikOps ==
    {[kind |-> "get_company", symbol |-> s] : s \in {"AAPL", "msft"}}
    \cup {[kind |-> "update_company_list", symbol |-> ""]}

\* the event loop runs t (as for the repository)
CikScheduled(t) ==
    \/ running = t
    \/ running = None /\ kpc[t] \notin {"idle", "ready"}

\* a call of the service is issued as a task, which waits for the loop
CikSpawn(t, o) ==
    /\ kpc[t] = "idle"
    /\ kpc' = [kpc EXCEPT ![t] = "ready"]
    /\ kop' = [kop EXCEPT ![t] = o]
    /\ kstale' = [kstale EXCEPT ![t] = ~IsFresh(last_refresh, utcnow)]
    /\ UNCHANGED <<cache, cache_lock, last_refresh, utcnow, current_symbols,
                   company_data, kres, kreloaded, kfirst, synced, redundant>>
    /\ UNCHANGED <<repoVars, clientVars, svcVars, walkVars, lifeVars, surVars, mntVars, shapeVars, lockVars>>

\* the loop starts get_company: it awaits _refresh_cache
GetCompany(t) ==
    /\ running = None
    /\ kpc[t] = "ready"
    /\ kop[t].kind = "get_company"
    /\ running' = t
    /\ kpc' = [kpc EXCEPT ![t] = "lock"]
    /\ kfirst' = [kfirst EXCEPT ![t] = synced]
    /\ synced' = NoSync
    /\ UNCHANGED <<cache, cache_lock, last_refresh, utcnow, kop, current_symbols,
                   company_data, kres, kreloaded, kstale, redundant>>
    /\ UNCHANGED <<file, key_field, pc, op, df, base, result>>
    /\ UNCHANGED <<clientVars, svcVars, walkVars, lifeVars, surVars, mntVars, shapeVars, lockVars>>

\* async with self._cache_lock: the free lock is taken without suspending
AcquireCacheLock(t) ==
    /\ CikScheduled(t)
    /\ kpc[t] = "lock"
    /\ cache_lock = None
    /\ cache_lock' = t
    /\ kpc' = [kpc EXCEPT ![t] = "check"]
    /\ running' = t
    /\ UNCHANGED <<cache, last_refresh, utcnow, kop, current_symbols, company_data,
                   kres, kreloaded, kstale, kfirst, synced, redundant>>
    /\ UNCHANGED <<file, key_field, pc, op, df, base, result>>
    /\ UNCHANGED <<clientVars, svcVars, walkVars, lifeVars, surVars, mntVars, shapeVars, lockVars>>

\* the freshness test under the lock: return, or clear the cache and reload
CheckFresh(t) ==
    /\ CikScheduled(t)
    /\ kpc[t] = "check"
    /\ IF IsFresh(last_refresh, utcnow)
       THEN /\ cache_lock' = None
            /\ kpc' = [kpc EXCEPT ![t] = "lookup"]
            /\ UNCHANGED cache
       ELSE /\ cache' = <<>>
            /\ kpc' = [kpc EXCEPT ![t] = "reload"]
            /\ UNCHANGED cache_lock
    /\ running' = t
    /\ UNCHANGED <<last_refresh, utcnow, kop, current_symbols, company_data,
                   kres, kreloaded, kstale, kfirst, synced, redundant>>
    /\ UNCHANGED <<file, key_field, pc, op, df, base, result>>
    /\ UNCHANGED <<clientVars, svcVars, walkVars, lifeVars, surVars, mntVars, shapeVars, lockVars>>

\* a failed refresh that stamps the cache all the same
StampAfterFailure_Advance(last, now) == <<now>>

\* the StorageError of get_all leaves _refresh_cache at line 51, before the
\* assignment of line 54: the stamp is what it was
StampAfterFailure(last, now) == last

\* companies = await self.repository.get_all(); the cache and the stamp are
\* set, the lock is released.  A StorageError leaves the cache cleared and the
\* stamp as it was, and leaves get_company.
Reload(t) ==
    /\ CikScheduled(t)
    /\ kpc[t] = "reload"
    /\ LET r == GetAllDf(ReadCsv(file, key_field), key_field)
       IN  IF r.err
           THEN /\ kres' = [kres EXCEPT ![t] =
                               [kind |-> "StorageError", val |-> NoEntity, symbols |-> {}]]
                /\ kpc' = [kpc EXCEPT ![t] = "done"]
                /\ last_refresh' = StampAfterFailure(last_refresh, utcnow)
                /\ UNCHANGED <<cache, kreloaded, redundant>>
           ELSE /\ cache' = r.ents
                /\ last_refresh' = <<utcnow>>
                /\ kreloaded' = [kreloaded EXCEPT ![t] = TRUE]
                /\ redundant' = (redundant \/ (last_refresh # <<>>
                                               /\ utcnow - last_refresh[1] < CACHE_TTL))
                /\ kpc' = [kpc EXCEPT ![t] = "lookup"]
                /\ UNCHANGED kres
    /\ cache_lock' = None
    /\ running' = t
    /\ UNCHANGED <<utcnow, kop, current_symbols, company_data, kstale, kfirst, synced>>
    /\ UNCHANGED <<file, key_field, pc, op, df, base, result>>
    /\ UNCHANGED <<clientVars, svcVars, walkVars, lifeVars, surVars, mntVars, shapeVars, lockVars>>

\* pd.read_csv raises inside get_all (the file cannot be read): _read_df
\* raises StorageError, which leaves _refresh_cache through "async with" and
\* get_company with it; the cache stays cleared
ReloadFails(t) ==
    /\ CikScheduled(t)
    /\ kpc[t] = "reload"
    /\ kres' = [kres EXCEPT ![t] =
                   [kind |-> "StorageError", val |-> NoEntity, symbols |-> {}]]
    /\ kpc' = [kpc EXCEPT ![t] = "done"]
    /\ last_refresh' = StampAfterFailure(last_refresh, utcnow)
    /\ cache_lock' = None
    /\ running' = t
    /\ UNCHANGED <<cache, utcnow, kop, current_symbols, company_data, kreloaded,
                   kstale, kfirst, synced, redundant>>
    /\ UNCHANGED <<file, key_field, pc, op, df, base, result>>
    /\ UNCHANGED <<clientVars, svcVars, walkVars, lifeVars, surVars, mntVars, shapeVars, lockVars>>

\* return self._cache.get(normalized_symbol)
Lookup(t) ==
    /\ CikScheduled(t)
    /\ kpc[t] = "lookup"
    /\ kres' = [kres EXCEPT ![t] = CacheGet(cache, NormalizeSymbol(kop[t].symbol))]
    /\ kpc' = [kpc EXCEPT ![t] = "done"]
    /\ running' = t
    /\ UNCHANGED <<cache, cache_lock, last_refresh, utcnow, kop, current_symbols,
                   company_data, kreloaded, kstale, kfirst, synced, redundant>>
    /\ UNCHANGED <<file, key_field, pc, op, df, base, result>>
    /\ UNCHANGED <<clientVars, svcVars, walkVars, lifeVars, surVars, mntVars, shapeVars, lockVars>>

\* the loop starts update_company_list: the stored symbols are read, then the
\* task is suspended in the request to the source
UpdateCompanyList(t) ==
    /\ running = None
    /\ kpc[t] = "ready"
    /\ kop[t].kind = "update_company_list"
    /\ LET r == GetAllDf(ReadCsv(file, key_field), key_field)
       IN  IF r.err
           THEN /\ kres' = [kres EXCEPT ![t] =
                               [kind |-> "StorageError", val |-> NoEntity, symbols |-> {}]]
                /\ kpc' = [kpc EXCEPT ![t] = "done"]
                /\ running' = t
                /\ UNCHANGED current_symbols
           ELSE /\ current_symbols' = [current_symbols EXCEPT ![t] = SymbolsOf(r.ents)]
                /\ kpc' = [kpc EXCEPT ![t] = "fetch"]
                /\ running' = None
                /\ UNCHANGED kres
    /\ UNCHANGED <<cache, cache_lock, last_refresh, utcnow, kop, company_data,
                   kreloaded, kstale, kfirst, synced, redundant>>
    /\ UNCHANGED <<file, key_field, pc, op, df, base, result>>
    /\ UNCHANGED <<clientVars, svcVars, walkVars, lifeVars, surVars, mntVars, shapeVars, lockVars>>

\* the source answers with its list and the loop resumes the task
SecReturns(t, data) ==
    /\ running = None
    /\ kpc[t] = "fetch"
    /\ company_data' = [company_data EXCEPT ![t] = data]
    /\ kpc' = [kpc EXCEPT ![t] = "process"]
    /\ running' = t
    /\ UNCHANGED <<cache, cache_lock, last_refresh, utcnow, kop, current_symbols,
                   kres, kreloaded, kstale, kfirst, synced, redundant>>
    /\ UNCHANGED <<file, key_field, pc, op, df, base, result>>
    /\ UNCHANGED <<clientVars, svcVars, walkVars, lifeVars, surVars, mntVars, shapeVars, lockVars>>

\* the request fails: APIError is logged and raised again
SecFails(t) ==
    /\ running = None
    /\ kpc[t] = "fetch"
    /\ kres' = [kres EXCEPT ![t] = [kind |-> "APIError", val |-> NoEntity, symbols |-> {}]]
    /\ kpc' = [kpc EXCEPT ![t] = "done"]
    /\ running' = t
    /\ UNCHANGED <<cache, cache_lock, last_refresh, utcnow, kop, current_symbols,
                   company_data, kreloaded, kstale, kfirst, synced, redundant>>
    /\ UNCHANGED <<file, key_field, pc, op, df, base, result>>
    /\ UNCHANGED <<clientVars, svcVars, walkVars, lifeVars, surVars, mntVars, shapeVars, lockVars>>

\* the rows are processed, the new companies are stored with add_many and the
\* next refresh is forced (lines 105-141); none of it suspends
ProcessCompanies(t) ==
    /\ CikScheduled(t)
    /\ kpc[t] = "process"
    /\ LET p == ProcessCompanyData(company_data[t], current_symbols[t])
           r == AddManyDf(ReadCsv(file, key_field), p.new_companies, key_field)
       IN  IF p.raised
           THEN /\ kres' = [kres EXCEPT ![t] =
                               [kind |-> "KeyError", val |-> NoEntity, symbols |-> {}]]
                /\ UNCHANGED <<file, last_refresh, synced>>
           ELSE IF p.new_companies = <<>>
           THEN /\ kres' = [kres EXCEPT ![t] =
                               [kind |-> "set", val |-> NoEntity, symbols |-> {}]]
                /\ UNCHANGED <<file, last_refresh, synced>>
           ELSE IF r.err
           THEN /\ kres' = [kres EXCEPT ![t] =
                               [kind |-> "StorageError", val |-> NoEntity, symbols |-> {}]]
                /\ UNCHANGED <<file, last_refresh, synced>>
           ELSE /\ file' = WriteCsv(r.df)
                /\ last_refresh' = ForceRefresh(last_refresh)
                /\ synced' = [symbols |-> synced.symbols \cup SymbolsOf(p.new_companies),
                              fresh |-> IsFresh(last_refresh, utcnow)]
                /\ kres' = [kres EXCEPT ![t] =
                               [kind |-> "set", val |-> NoEntity,
                                symbols |-> SymbolsOf(p.new_companies)]]
    /\ kpc' = [kpc EXCEPT ![t] = "done"]
    /\ running' = t
    /\ UNCHANGED <<cache, cache_lock, utcnow, kop, current_symbols, company_data,
                   kreloaded, kstale, kfirst, redundant>>
    /\ UNCHANGED <<key_field, pc, op, df, base, result>>
    /\ UNCHANGED <<clientVars, svcVars, walkVars, lifeVars, surVars, mntVars, shapeVars, lockVars>>

\* the call returns or raises to its caller and the task ends
CikReturn(t) ==
    /\ CikScheduled(t)
    /\ kpc[t] = "done"
    /\ running' = None
    /\ kpc' = [kpc EXCEPT ![t] = "idle"]
    /\ kop' = [kop EXCEPT ![t] = NoCikOp]
    /\ current_symbols' = [current_symbols EXCEPT ![t] = {}]
    /\ company_data' = [company_data EXCEPT ![t] = <<>>]
    /\ kres' = [kres EXCEPT ![t] = NoCikResult]
    /\ kreloaded' = [kreloaded EXCEPT ![t] = FALSE]
    /\ kstale' = [kstale EXCEPT ![t] = FALSE]
    /\ kfirst' = [kfirst EXCEPT ![t] = NoSync]
    /\ UNCHANGED <<cache, cache_lock, last_refresh, utcnow, synced, redundant>>
    /\ UNCHANGED <<file, key_field, pc, op, df, base, result>>
    /\ UNCHANGED <<clientVars, svcVars, walkVars, lifeVars, surVars, mntVars, shapeVars, lockVars>>

\* hours pass while no task holds the loop
CikTick ==
    /\ running = None
    /\ \E h \in {8, 16} :
          /\ utcnow + h <= MaxClock
          /\ utcnow' = utcnow + h
    /\ UNCHANGED <<cache, cache_lock, last_refresh, kpc, kop, current_symbols,
                   company_data, kres, kreloaded, kstale, kfirst, synced, redundant>>
    /\ UNCHANGED <<repoVars, clientVars, svcVars, walkVars, lifeVars, surVars, mntVars, shapeVars, lockVars>>

CikNext ==
    \/ CikTick
    \/ \E t \in Tasks :
          \/ \E o \in CikOps : CikSpawn(t, o)
          \/ GetCompany(t)
          \/ AcquireCacheLock(t)
          \/ CheckFresh(t)
          \/ Reload(t)
          \/ ReloadFails(t)
          \/ Lookup(t)
          \/ UpdateCompanyList(t)
          \/ \E data \in CompanyTickers : SecReturns(t, data)
          \/ SecFails(t)
          \/ ProcessCompanies(t)
          \/ CikReturn(t)

CikInit == RepoIdle /\ ClientIdle /\ SvcIdle /\ WalkIdle /\ CikIdle /\ LifeIdle /\ SurIdle
        /\ MntIdle /\ ShapeIdle /\ LockIdle

\* the identifier service under concurrent callers
SpecCik == CikInit /\ [][CikNext]_vars

\* the call of t is a get_company that has reached its return
GetDone(t) == kpc[t] = "done" /\ kop[t].kind = "get_company"

\* C11: callers of get_company that arrive while the cache is stale cause one
\* reload between them: no reload happens while the cache is fresh, and a call
\* that returns leaves a fresh cache and answers from the snapshot of the last
\* reload.
C11_SingleReload ==
    /\ ~redundant
    /\ \A t \in Tasks :
          (GetDone(t) /\ running = t /\ kres[t].kind # "StorageError")
          => /\ last_refresh # <<>>
             /\ utcnow - last_refresh[1] < CACHE_TTL
             /\ kres[t] = CacheGet(cache, NormalizeSymbol(kop[t].symbol))

\* a call issued while the cache was stale returns without having reloaded:
\* the call of the other task did the reload in between
C11_Witness ==
    \E t \in Tasks :
        /\ GetDone(t)
        /\ kstale[t]
        /\ ~kreloaded[t]
        /\ kres[t].kind = "entity"

\* C17: the first get_company after a sync that returned symbol s, asked for
\* s, reloads the cache and returns the record of s (unless the file cannot be
\* read).
C17_SyncForcesReload ==
    \A t \in Tasks :
        (/\ GetDone(t)
         /\ NormalizeSymbol(kop[t].symbol) \in kfirst[t].symbols
         /\ kres[t].kind # "StorageError")
        => /\ kreloaded[t]
           /\ kres[t].kind = "entity"
           /\ kres[t].val.symbol = NormalizeSymbol(kop[t].symbol)

\* such a call, after a sync that found the cache less than 24 hours old
C17_Witness ==
    \E t \in Tasks :
        /\ GetDone(t)
        /\ NormalizeSymbol(kop[t].symbol) \in kfirst[t].symbols
        /\ kfirst[t].fresh
        /\ kreloaded[t]
        /\ kres[t].kind = "entity"

\* what get_all returns for the file as it is
Stored == GetAllDf(ReadCsv(file, key_field), key_field).ents

C40_FailedRefreshIsRetried ==
    \A t \in Tasks :
        /\ (GetDone(t) /\ running = t /\ kres[t].kind = "StorageError")
           => /\ cache_lock = None
              /\ ~IsFresh(last_refresh, utcnow)
              /\ cache = <<>>
        /\ (kpc[t] = "lookup" /\ running = t)
           => /\ IsFresh(last_refresh, utcnow)
              /\ cache = Stored

\* a reload has failed 24 hours or more after a refresh, on a repository that
\* holds records: the snapshot is empty and the old stamp is still there
C40_Witness ==
    \E t \in Tasks :
        /\ GetDone(t)
        /\ kres[t].kind = "StorageError"
        /\ last_refresh # <<>>
        /\ file # <<>>
        /\ cache = <<>>

\* a source row that is invalid on its own
InvalidRow(data) ==
    \/ data.ticker = Absent \/ data.ticker = ""
    \/ data.cik_str = Absent
    \/ data.title = Absent
    \/ ~ValidCompany(data, NormalizeSymbol(data.ticker))

\* C18: a sync whose response holds an invalid row, and whose write the store
\* does not refuse, returns a set, and every valid unseen row of the response
\* is in that set and in the file.
C18_InvalidRowsSkipped ==
    \A t \in Tasks :
        (/\ kpc[t] = "done"
         /\ kop[t].kind = "update_company_list"
         /\ company_data[t] # <<>>
         /\ \E i \in 1..Len(company_data[t]) : InvalidRow(company_data[t][i])
         /\ kres[t].kind # "StorageError")
        => /\ kres[t].kind = "set"
           /\ \A i \in 1..Len(company_data[t]) :
                 LET data == company_data[t][i]
                 IN  (~InvalidRow(data) /\ NormalizeSymbol(data.ticker) \notin current_symbols[t])
                     => /\ NormalizeSymbol(data.ticker) \in kres[t].symbols
                        /\ \E j \in 1..Len(file) :
                              /\ file[j]["symbol"] = NormalizeSymbol(data.ticker)
                              /\ file[j]["cik"] = Zfill(data.cik_str)

\* the normalized symbols of a source response
SourceSymbols(rows) ==
    {NormalizeSymbol(rows[i].ticker) :
        i \in {j \in 1..Len(rows) : rows[j].ticker # Absent /\ rows[j].ticker # ""}}

\* C31: a sync that got its response returns exactly the normalized symbols of
\* the response that the repository did not hold before the call, and the file
\* has one record for each of them; a sync whose response has no unseen symbol
\* (a second sync after the same response) returns the empty set.
C31_SyncReturnsUnseenSymbols ==
    \A t \in Tasks :
        (/\ kpc[t] = "done"
         /\ kop[t].kind = "update_company_list"
         /\ company_data[t] # <<>>)
        => /\ kres[t].kind = "set"
           /\ kres[t].symbols = SourceSymbols(company_data[t]) \ current_symbols[t]
           /\ \A s \in kres[t].symbols :
                 Cardinality({j \in 1..Len(file) : file[j]["symbol"] = s}) = 1

\* C19: no two rows of the identifier file have the same key.
C19_UniqueKeys ==
    \A i, j \in 1..Len(file) :
        i # j => Zfill(file[i]["cik"]) # Zfill(file[j]["cik"])

\* the hours since the last refresh, as the freshness test sees them
Elapsed == utcnow - last_refresh[1]

\* C30 as stated: the freshness test sends a call to the reload exactly when
\* the cache was never refreshed or more than 24 hours have passed; a call
\* within 24 hours is served without a read; after the reload the snapshot is
\* what the repository holds.
C30_ReloadAfterMoreThan24h ==
    \A t \in Tasks :
        /\ kpc[t] = "reload" => (last_refresh = <<>> \/ Elapsed > CACHE_TTL)
        /\ (kpc[t] = "lookup" /\ ~kreloaded[t])
           => (last_refresh # <<>> /\ Elapsed <= CACHE_TTL)
        /\ (kpc[t] = "lookup" /\ kreloaded[t])
           => /\ last_refresh = <<utcnow>>
              /\ cache = GetAllDf(ReadCsv(file, key_field), key_field).ents

\* C30, amended: the freshness test sends a call to the reload exactly when the
\* cache was never refreshed or at least 24 hours have passed; a call less than
\* 24 hours after the refresh is served without a read; after the reload the
\* snapshot is what the repository holds and the stamp is the time of the call.
C30_ReloadFrom24h ==
    \A t \in Tasks :
        /\ kpc[t] = "reload" => (last_refresh = <<>> \/ Elapsed >= CACHE_TTL)
        /\ (kpc[t] = "lookup" /\ ~kreloaded[t])
           => (last_refresh # <<>> /\ Elapsed < CACHE_TTL)
        /\ (kpc[t] = "lookup" /\ kreloaded[t])
           => /\ last_refresh = <<utcnow>>
              /\ cache = GetAllDf(ReadCsv(file, key_field), key_field).ents

\* a call on its way to the reload exactly 24 hours after the last refresh,
\* the old snapshot cleared
C30_Witness ==
    \E t \in Tasks :
        /\ kpc[t] = "reload"
        /\ last_refresh # <<>>
        /\ Elapsed = CACHE_TTL
        /\ file # <<>>
        /\ cache = <<>>

-----------------------------------------------------------------------------
(* EarningsReport.calculate_surprises, called again and again on a report. *)

\* the model calls calculate_surprises at most this often on a report
MaxCalls == 3

\* the reports the calls start from: every amount set or not, the surprise a
\* report was constructed with set or not
Reports ==
    {Report(ee, ea, re, ra, es, <<>>) :
        ee \in {<<>>, <<143>>}, ea \in {<<>>, <<152>>, <<130>>},
        re \in {<<>>, <<8970000>>}, ra \in {<<>>, <<9014600>>},
        es \in {<<>>, <<5>>}}

\* the value a surprise accumulates from: 0 when it is not set
Amount(a) == IF a = <<>> THEN 0 ELSE a[1]

\* a calculation that adds the difference to the surprise the report has
CalculateSurprisesOf_Accumulate(r) ==
    [r EXCEPT
        !.eps_surprise =
            IF r.eps_estimate # <<>> /\ r.eps_actual # <<>>
            THEN <<Amount(@) + r.eps_actual[1] - r.eps_estimate[1]>> ELSE @,
        !.revenue_surprise =
            IF r.revenue_estimate # <<>> /\ r.revenue_actual # <<>>
            THEN <<Amount(@) + r.revenue_actual[1] - r.revenue_estimate[1]>> ELSE @]

\* EarningsReport.calculate_surprises on the report: a surprise is assigned
\* when both sides of its pair are set, and is not touched otherwise
CalculateSurprisesOf(r) ==
    [r EXCEPT
        !.eps_surprise =
            IF r.eps_estimate # <<>> /\ r.eps_actual # <<>>
            THEN CalculateSurprises(r.eps_estimate, r.eps_actual) ELSE @,
        !.revenue_surprise =
            IF r.revenue_estimate # <<>> /\ r.revenue_actual # <<>>
            THEN CalculateSurprises(r.revenue_estimate, r.revenue_actual) ELSE @]

\* report.calculate_surprises()
Calculate ==
    /\ ncalls < MaxCalls
    /\ report' = CalculateSurprisesOf(report)
    /\ once' = IF ncalls = 0 THEN CalculateSurprisesOf(report) ELSE once
    /\ ncalls' = ncalls + 1
    /\ UNCHANGED orig
    /\ UNCHANGED <<repoVars, clientVars, svcVars, walkVars, cikVars, lifeVars, mntVars, shapeVars, lockVars>>

SurNext == Calculate

SurInit ==
    /\ RepoIdle /\ ClientIdle /\ SvcIdle /\ WalkIdle /\ CikIdle /\ LifeIdle
    /\ MntIdle /\ ShapeIdle /\ LockIdle
    /\ report \in Reports
    /\ orig = report
    /\ once = report
    /\ ncalls = 0

\* calculate_surprises called on one report
SpecSurprise == SurInit /\ [][SurNext]_vars

\* C27: after any number of calls the report is what it was after the first
\* call; a surprise is actual minus estimate when both sides of its pair are
\* set, and as the report was constructed (unset, if it was unset) otherwise.
C27_SurprisesIdempotent ==
    ncalls >= 1
    => /\ report = once
       /\ report.eps_surprise =
             IF orig.eps_estimate # <<>> /\ orig.eps_actual # <<>>
             THEN <<orig.eps_actual[1] - orig.eps_estimate[1]>>
             ELSE orig.eps_surprise
       /\ report.revenue_surprise =
             IF orig.revenue_estimate # <<>> /\ orig.revenue_actual # <<>>
             THEN <<orig.revenue_actual[1] - orig.revenue_estimate[1]>>
             ELSE orig.revenue_surprise
       /\ \A f \in {"eps_estimate", "eps_actual", "revenue_estimate", "revenue_actual"} :
             report[f] = orig[f]

\* the test's report (estimate 1.43, actual 1.52, no revenue figures) after
\* two calls: the surprise is 0.09, the revenue surprise is not set
C27_Witness ==
    /\ ncalls >= 2
    /\ orig = Report(<<143>>, <<152>>, <<>>, <<>>, <<>>, <<>>)
    /\ report.eps_surprise = <<9>>
    /\ report.revenue_surprise = <<>>

-----------------------------------------------------------------------------
(* The session of a BaseAPIClient: setup, the lazy setup of a request, and  *)
(* cleanup, for two clients whose calls interleave.  Each client is driven  *)
(* by one caller, one call after the other.                                 *)

\* the model creates at most this many sessions
MaxSessions == 3

\* a setup that does not look whether the client has a session
NeedsSession_Always(s) == TRUE

\* if self._session is None (lines 57 and 102)
NeedsSession(s) == s = 0

\* a session object that every client gets
NewSession_Shared(n) == 1

\* ClientSession(...): a new object, the n+1st
NewSession(n) == n + 1

\* setup(): the session is created when the client has none
SetupSession(c) ==
    IF NeedsSession(client_session[c])
    THEN /\ client_session' = [client_session EXCEPT ![c] = NewSession(created)]
         /\ created' = created + 1
         /\ made' = [made EXCEPT ![c] = @ + 1]
         /\ owned' = [owned EXCEPT ![c] = @ \cup {NewSession(created)}]
    ELSE UNCHANGED <<client_session, created, made, owned>>

\* await client.setup(), also as __aenter__: the scope begins
Setup(c) ==
    /\ lpc[c] = "idle"
    /\ NeedsSession(client_session[c]) => created < MaxSessions
    /\ SetupSession(c)
    /\ in_scope' = [in_scope EXCEPT ![c] = TRUE]
    /\ UNCHANGED <<closed, lpc>>
    /\ UNCHANGED <<repoVars, clientVars, svcVars, walkVars, cikVars, surVars, mntVars, shapeVars, lockVars>>

\* a request: _make_request sets the client up when it has no session
LazyRequest(c) ==
    /\ lpc[c] = "idle"
    /\ NeedsSession(client_session[c]) => created < MaxSessions
    /\ SetupSession(c)
    /\ UNCHANGED <<closed, in_scope, lpc>>
    /\ UNCHANGED <<repoVars, clientVars, svcVars, walkVars, cikVars, surVars, mntVars, shapeVars, lockVars>>

\* await client.cleanup(), also as __aexit__: an open session is closed, and
\* the caller may be suspended in close(); without an open session cleanup
\* returns at once
CleanupBegin(c) ==
    /\ lpc[c] = "idle"
    /\ IF client_session[c] # 0 /\ client_session[c] \notin closed
       THEN /\ closed' = closed \cup {client_session[c]}
            /\ lpc' = [lpc EXCEPT ![c] = "closing"]
       ELSE UNCHANGED <<closed, lpc>>
    /\ in_scope' = [in_scope EXCEPT ![c] = FALSE]
    /\ UNCHANGED <<client_session, created, made, owned>>
    /\ UNCHANGED <<repoVars, clientVars, svcVars, walkVars, cikVars, surVars, mntVars, shapeVars, lockVars>>

\* close() is over: self._session = None, and cleanup returns
CleanupEnd(c) ==
    /\ lpc[c] = "closing"
    /\ client_session' = [client_session EXCEPT ![c] = 0]
    /\ made' = [made EXCEPT ![c] = 0]
    /\ lpc' = [lpc EXCEPT ![c] = "idle"]
    /\ UNCHANGED <<closed, created, in_scope, owned>>
    /\ UNCHANGED <<repoVars, clientVars, svcVars, walkVars, cikVars, surVars, mntVars, shapeVars, lockVars>>

LifeNext ==
    \E c \in Clients :
        \/ Setup(c)
        \/ LazyRequest(c)
        \/ CleanupBegin(c)
        \/ CleanupEnd(c)

LifeInit == RepoIdle /\ ClientIdle /\ SvcIdle /\ WalkIdle /\ CikIdle /\ LifeIdle /\ SurIdle
        /\ MntIdle /\ ShapeIdle /\ LockIdle

\* the sessions of two clients
SpecLife == LifeInit /\ [][LifeNext]_vars

\* C25: a client has no session before a setup or a request; a setup while it
\* has one creates none; from setup to cleanup the session is there and open;
\* once cleanup has returned the client holds no session, and every session
\* it ever created is closed.
C25_SessionLifecycle ==
    \A c \in Clients :
        /\ made[c] = 0 => (client_session[c] = 0 \/ lpc[c] = "closing")
        /\ made[c] <= 1
        /\ in_scope[c] => (client_session[c] # 0 /\ client_session[c] \notin closed)
        /\ \A s \in owned[c] : s = client_session[c] \/ s \in closed
        /\ (lpc[c] = "idle" /\ made[c] = 0) => owned[c] \subseteq closed

\* a client that has been through two scopes: it holds no session and both
\* sessions are closed
C25_Witness ==
    \E c \in Clients :
        /\ Cardinality(owned[c]) = 2
        /\ client_session[c] = 0
        /\ lpc[c] = "idle"
        /\ owned[c] \subseteq closed

\* C26: two clients never hold the same session, and the session a client
\* holds is not closed by the cleanup of the other.
C26_SessionsNotShared ==
    \A c1 \in Clients : \A c2 \in Clients \ {c1} :
        /\ client_session[c1] # 0 => client_session[c1] # client_session[c2]
        /\ owned[c1] \cap owned[c2] = {}
        /\ (client_session[c1] # 0 /\ lpc[c1] = "idle") => client_session[c1] \notin closed

\* nested scopes: the inner client has left its scope and its session is
\* closed, the outer client is in its scope with its session open
C26_Witness ==
    \E c1 \in Clients : \E c2 \in Clients \ {c1} :
        /\ in_scope[c1]
        /\ client_session[c1] \notin closed
        /\ client_session[c1] < client_session[c2]
        /\ lpc[c2] = "closing"
        /\ client_session[c2] \in closed

-----------------------------------------------------------------------------
(* The locks of the process and the order in which the calls take them.    *)
(* A call is the sequence of its lock operations, with the request it      *)
(* awaits and the file work it does in between; tasks are interleaved at   *)
(* every one of these steps.                                               *)

Acq(l) == <<"acquire", l>>

Rel(l) == <<"release", l>>

\* the request to the source: the task is suspended until the response, the
\* timeout or the error
AwaitResponse == <<"await", "">>

\* pd.read_csv or df.to_csv inside the repository lock
FileWork == <<"work", "">>

\* CSVRepository._read_df and _write_df: the lock around the file access
ReadOrWrite(l) == <<Acq(l), FileWork, Rel(l)>>

\* BaseAPIClient._make_request: the client lock around pacing and request
MakeRequest(l) == <<Acq(l), AwaitResponse, Rel(l)>>

\* CIKService.get_company: _refresh_cache holds the cache lock around get_all
GetCompanyProgram == <<Acq("cache")>> \o ReadOrWrite("companies") \o <<Rel("cache")>>

\* the steps of each call, in the order of its source
Program(c) ==
    IF c = "fetch_daily_earnings"
    THEN <<Acq("processing")>>
         \o MakeRequest("nasdaq")
         \o GetCompanyProgram
         \o ReadOrWrite("master") \o ReadOrWrite("master")
         \o <<Rel("processing")>>
    ELSE IF c = "get_company" THEN GetCompanyProgram
    ELSE IF c = "update_company_list"
    THEN ReadOrWrite("companies")
         \o MakeRequest("sec")
         \o ReadOrWrite("companies") \o ReadOrWrite("companies")
    ELSE ReadOrWrite("companies") \o ReadOrWrite("companies")

LockCalls == {"fetch_daily_earnings", "get_company", "update_company_list", "add"}

\* an exception that leaves the locks it passes as they are
ReleasedOnExit_Keep(h, t) == h

\* an exception leaves every "async with" block of the task: __aexit__
\* releases each lock it holds
ReleasedOnExit(h, t) == [l \in Locks |-> IF h[l] = t THEN None ELSE h[l]]

\* a task makes a call
LockCall(t, c) ==
    /\ call[t] = "none"
    /\ call' = [call EXCEPT ![t] = c]
    /\ prog' = [prog EXCEPT ![t] = Program(c)]
    /\ UNCHANGED <<held, blocked>>
    /\ UNCHANGED <<repoVars, clientVars, svcVars, walkVars, cikVars, lifeVars, surVars>>
    /\ UNCHANGED <<mntVars, shapeVars>>

\* Lock.acquire on a lock that is held: the task joins the waiters
Block(t) ==
    /\ prog[t] # <<>>
    /\ Head(prog[t])[1] = "acquire"
    /\ held[Head(prog[t])[2]] # None
    /\ ~blocked[t]
    /\ blocked' = [blocked EXCEPT ![t] = TRUE]
    /\ UNCHANGED <<held, prog, call>>
    /\ UNCHANGED <<repoVars, clientVars, svcVars, walkVars, cikVars, lifeVars, surVars>>
    /\ UNCHANGED <<mntVars, shapeVars>>

\* async with lock: the lock is free, or has been released to the waiter
Acquire(t) ==
    /\ prog[t] # <<>>
    /\ Head(prog[t])[1] = "acquire"
    /\ held[Head(prog[t])[2]] = None
    /\ held' = [held EXCEPT ![Head(prog[t])[2]] = t]
    /\ prog' = [prog EXCEPT ![t] = Tail(@)]
    /\ UNCHANGED <<call, blocked>>
    /\ UNCHANGED <<repoVars, clientVars, svcVars, walkVars, cikVars, lifeVars, surVars>>
    /\ UNCHANGED <<mntVars, shapeVars>>

\* the end of the "async with" block
Release(t) ==
    /\ prog[t] # <<>>
    /\ Head(prog[t])[1] = "release"
    /\ held' = [held EXCEPT ![Head(prog[t])[2]] = None]
    /\ prog' = [prog EXCEPT ![t] = Tail(@)]
    /\ UNCHANGED <<call, blocked>>
    /\ UNCHANGED <<repoVars, clientVars, svcVars, walkVars, cikVars, lifeVars, surVars>>
    /\ UNCHANGED <<mntVars, shapeVars>>

\* the request or the file access inside the section succeeds
Proceed(t) ==
    /\ prog[t] # <<>>
    /\ Head(prog[t])[1] \in {"await", "work"}
    /\ prog' = [prog EXCEPT ![t] = Tail(@)]
    /\ UNCHANGED <<held, call, blocked>>
    /\ UNCHANGED <<repoVars, clientVars, svcVars, walkVars, cikVars, lifeVars, surVars>>
    /\ UNCHANGED <<mntVars, shapeVars>>

\* it raises (APIError, StorageError): the call ends, its sections are left
Raise(t) ==
    /\ prog[t] # <<>>
    /\ Head(prog[t])[1] \in {"await", "work"}
    /\ held' = ReleasedOnExit(held, t)
    /\ prog' = [prog EXCEPT ![t] = <<>>]
    /\ UNCHANGED <<call, blocked>>
    /\ UNCHANGED <<repoVars, clientVars, svcVars, walkVars, cikVars, lifeVars, surVars>>
    /\ UNCHANGED <<mntVars, shapeVars>>

\* the caller has the result or the exception
LockReturn(t) ==
    /\ call[t] # "none"
    /\ prog[t] = <<>>
    /\ call' = [call EXCEPT ![t] = "none"]
    /\ blocked' = [blocked EXCEPT ![t] = FALSE]
    /\ UNCHANGED <<held, prog>>
    /\ UNCHANGED <<repoVars, clientVars, svcVars, walkVars, cikVars, lifeVars, surVars>>
    /\ UNCHANGED <<mntVars, shapeVars>>

LockNext ==
    \E t \in Tasks :
        \/ \E c \in LockCalls : LockCall(t, c)
        \/ Block(t)
        \/ Acquire(t)
        \/ Release(t)
        \/ Proceed(t)
        \/ Raise(t)
        \/ LockReturn(t)

LockInit ==
    /\ RepoIdle /\ ClientIdle /\ SvcIdle /\ WalkIdle /\ CikIdle /\ LifeIdle /\ SurIdle
    /\ MntIdle /\ ShapeIdle /\ LockIdle

\* the event loop runs every task that can run, a request ends with its
\* response, its error or its timeout, and asyncio.Lock hands a released lock
\* to its waiters in the order they came: a task that can take a lock again
\* and again does take it
LockFairness ==
    \A t \in Tasks :
        /\ WF_vars(Release(t))
        /\ WF_vars(Proceed(t) \/ Raise(t))
        /\ SF_vars(Acquire(t))

\* the calls of the services and of the repository under a fair event loop
SpecLocks == LockInit /\ [][LockNext]_vars /\ LockFairness

\* the order of the locks: orchestrator, HTTP client, cache, repository
Rank(l) ==
    IF l = "processing" THEN 1
    ELSE IF l \in {"nasdaq", "sec"} THEN 2
    ELSE IF l = "cache" THEN 3
    ELSE 4

\* a task that is about to take a lock holds only locks of lower rank
TakenInOrder ==
    \A t \in Tasks :
        (prog[t] # <<>> /\ Head(prog[t])[1] = "acquire")
        => \A l \in Locks : held[l] = t => Rank(l) < Rank(Head(prog[t])[2])

\* a task whose call is over, by return or by exception, holds no lock
ReleasedAtEnd ==
    \A t \in Tasks : prog[t] = <<>> => \A l \in Locks : held[l] # t

\* C38: the locks are taken in one order (orchestrator, client, cache,
\* repository), a call that has ended holds none of them, however it ended,
\* and under a fair event loop every call that was made comes to its end.
C38_NoDeadlock ==
    /\ [](TakenInOrder /\ ReleasedAtEnd)
    /\ \A t \in Tasks : (prog[t] # <<>>) ~> (prog[t] = <<>>)

\* an ingestion that had to wait for a lock has come to its end while the
\* other task is inside a section
C38_Witness ==
    \E t \in Tasks :
        /\ call[t] = "fetch_daily_earnings"
        /\ blocked[t]
        /\ prog[t] = <<>>
        /\ \E l \in Locks : held[l] # None

====
